---- MODULE Spec2Model ----
(***************************************************************************)
(* Model of the Braids polyphonic voice engine (src/dsp/braids_plugin.cpp):*)
(* the Parameter Store, the preset bank, the four voices with their two    *)
(* ADSR envelopes, the voice allocator, the MIDI and set_param handlers    *)
(* and the block renderer.                                                 *)
(*                                                                         *)
(* Numbers.  The code's floats are fixed-point integers here: a parameter  *)
(* value p is the integer p * One, an envelope level or rate l is the      *)
(* integer l * LevelOne.  All quantities stay inside TLC's 32-bit range.   *)
(***************************************************************************)
EXTENDS Integers, Sequences, FiniteSets, TLC

(* ----------------------------- constants ------------------------------ *)

MAX_VOICES == 4
BRAIDS_BLOCK_SIZE == 24
PITCH_CORRECTION == 1724
NUM_SHAPES == 47
MAX_PRESETS == 64
PARAM_COUNT == 16

PARAM_ENGINE == 0
PARAM_TIMBRE == 1
PARAM_COLOR == 2
PARAM_ATTACK == 3
PARAM_DECAY == 4
PARAM_SUSTAIN == 5
PARAM_RELEASE == 6
PARAM_FM == 7
PARAM_CUTOFF == 8
PARAM_RESONANCE == 9
PARAM_FILT_ENV == 10
PARAM_F_ATTACK == 11
PARAM_F_DECAY == 12
PARAM_F_SUSTAIN == 13
PARAM_F_RELEASE == 14
PARAM_VOLUME == 15

\* The float 1.0f of a parameter value, and of an envelope level.
One == 100000
LevelOne == 441 * One

\* SimpleADSR::Stage
IDLE == "IDLE"
ATTACK == "ATTACK"
DECAY == "DECAY"
SUSTAIN == "SUSTAIN"
RELEASE == "RELEASE"
Stage == {IDLE, ATTACK, DECAY, SUSTAIN, RELEASE}

Voices == 0 .. (MAX_VOICES - 1)
Params == 0 .. (PARAM_COUNT - 1)

\* g_shadow_params: key, index and inclusive range of each named parameter.
g_shadow_params ==
    << [key |-> "engine",    index |-> PARAM_ENGINE,    is_int |-> TRUE,
        min_val |-> 0, max_val |-> (NUM_SHAPES - 1) * One],
       [key |-> "timbre",    index |-> PARAM_TIMBRE,    is_int |-> FALSE, min_val |-> 0, max_val |-> One],
       [key |-> "color",     index |-> PARAM_COLOR,     is_int |-> FALSE, min_val |-> 0, max_val |-> One],
       [key |-> "attack",    index |-> PARAM_ATTACK,    is_int |-> FALSE, min_val |-> 0, max_val |-> One],
       [key |-> "decay",     index |-> PARAM_DECAY,     is_int |-> FALSE, min_val |-> 0, max_val |-> One],
       [key |-> "sustain",   index |-> PARAM_SUSTAIN,   is_int |-> FALSE, min_val |-> 0, max_val |-> One],
       [key |-> "release",   index |-> PARAM_RELEASE,   is_int |-> FALSE, min_val |-> 0, max_val |-> One],
       [key |-> "fm",        index |-> PARAM_FM,        is_int |-> FALSE, min_val |-> 0, max_val |-> One],
       [key |-> "cutoff",    index |-> PARAM_CUTOFF,    is_int |-> FALSE, min_val |-> 0, max_val |-> One],
       [key |-> "resonance", index |-> PARAM_RESONANCE, is_int |-> FALSE, min_val |-> 0, max_val |-> One],
       [key |-> "filt_env",  index |-> PARAM_FILT_ENV,  is_int |-> FALSE, min_val |-> 0, max_val |-> One],
       [key |-> "f_attack",  index |-> PARAM_F_ATTACK,  is_int |-> FALSE, min_val |-> 0, max_val |-> One],
       [key |-> "f_decay",   index |-> PARAM_F_DECAY,   is_int |-> FALSE, min_val |-> 0, max_val |-> One],
       [key |-> "f_sustain", index |-> PARAM_F_SUSTAIN, is_int |-> FALSE, min_val |-> 0, max_val |-> One],
       [key |-> "f_release", index |-> PARAM_F_RELEASE, is_int |-> FALSE, min_val |-> 0, max_val |-> One],
       [key |-> "volume",    index |-> PARAM_VOLUME,    is_int |-> FALSE, min_val |-> 0, max_val |-> One] >>

\* v2_create_instance: the compiled-in default of every parameter.
DefaultParams ==
    [i \in Params |->
        CASE i = PARAM_ENGINE    -> 0
          [] i = PARAM_TIMBRE    -> One \div 2
          [] i = PARAM_COLOR     -> One \div 2
          [] i = PARAM_ATTACK    -> 0
          [] i = PARAM_DECAY     -> One \div 2
          [] i = PARAM_SUSTAIN   -> One
          [] i = PARAM_RELEASE   -> (3 * One) \div 10
          [] i = PARAM_FM        -> 0
          [] i = PARAM_CUTOFF    -> One
          [] i = PARAM_RESONANCE -> 0
          [] i = PARAM_FILT_ENV  -> 0
          [] i = PARAM_F_ATTACK  -> 0
          [] i = PARAM_F_DECAY   -> (3 * One) \div 10
          [] i = PARAM_F_SUSTAIN -> 0
          [] i = PARAM_F_RELEASE -> (3 * One) \div 10
          [] OTHER               -> (7 * One) \div 10]

(* ------------------------------ SimpleADSR ---------------------------- *)

\* (int)x of a float x held as x * One: truncation toward zero.
Trunc(x) == IF x >= 0 THEN x \div One ELSE -((-x) \div One)

\* set_params' lambda: t = 0.001 + p*p*10 seconds, rate = 1/(t*44100) per
\* sample.  t*44100*10 = 441 + 441 * (10^4 * p^2); p is squared at 10^-4.
\* A mapping whose shortest stage lasts a second, not a millisecond.
time_to_rate_seconds(p) ==
    LET q == IF p >= 0 THEN p \div 10 ELSE (-p) \div 10
        samples_x10 == 441000 + 441 * ((q * q) \div 10000)
    IN  (10 * LevelOne) \div samples_x10

time_to_rate(p) ==
    LET q == IF p >= 0 THEN p \div 10 ELSE (-p) \div 10
        samples_x10 == 441 + 441 * ((q * q) \div 10000)
    IN  (10 * LevelOne) \div samples_x10

\* A sustain parameter as an envelope level.
LevelOf(s) == s * (LevelOne \div One)

\* SimpleADSR after calloc and init(): stage IDLE, level 0, rates 0.
EnvInit ==
    [stage |-> IDLE, level |-> 0, attack_rate |-> 0, decay_rate |-> 0,
     sustain_level |-> 0, release_rate |-> 0]

\* An init() that zeroes the level and keeps the stage.
init_level_only(e) == [e EXCEPT !.level = 0]

init(e) == [e EXCEPT !.stage = IDLE, !.level = 0]

set_params(e, a, d, s, r) ==
    [e EXCEPT !.attack_rate = time_to_rate(a),
              !.decay_rate = time_to_rate(d),
              !.sustain_level = LevelOf(s),
              !.release_rate = time_to_rate(r)]

\* A trigger that drops the envelope into DECAY.
gate_on_decay(e) == [e EXCEPT !.stage = DECAY]

gate_on(e) == [e EXCEPT !.stage = ATTACK]

\* A gate_off() that leaves the stage alone.
gate_off_ignored(e) == e

gate_off(e) == IF e.stage # IDLE THEN [e EXCEPT !.stage = RELEASE] ELSE e

is_active(e) == e.stage # IDLE

\* An envelope whose release runs down to level 0 and stays in RELEASE.
process_release_never_idle(e) ==
    CASE e.stage = ATTACK ->
            LET l == e.level + e.attack_rate
            IN  IF l >= LevelOne
                THEN [e EXCEPT !.level = LevelOne, !.stage = DECAY]
                ELSE [e EXCEPT !.level = l]
      [] e.stage = DECAY ->
            LET l == e.level - e.decay_rate
            IN  IF l <= e.sustain_level
                THEN [e EXCEPT !.level = e.sustain_level, !.stage = SUSTAIN]
                ELSE [e EXCEPT !.level = l]
      [] e.stage = SUSTAIN -> [e EXCEPT !.level = e.sustain_level]
      [] e.stage = RELEASE ->
            LET l == e.level - e.release_rate
            IN  [e EXCEPT !.level = IF l <= 0 THEN 0 ELSE l]
      [] OTHER -> [e EXCEPT !.level = 0]

\* An envelope whose attack, once full, drops straight into SUSTAIN.
process_skip_decay(e) ==
    CASE e.stage = ATTACK ->
            LET l == e.level + e.attack_rate
            IN  IF l >= LevelOne
                THEN [e EXCEPT !.level = e.sustain_level, !.stage = SUSTAIN]
                ELSE [e EXCEPT !.level = l]
      [] e.stage = DECAY ->
            LET l == e.level - e.decay_rate
            IN  IF l <= e.sustain_level
                THEN [e EXCEPT !.level = e.sustain_level, !.stage = SUSTAIN]
                ELSE [e EXCEPT !.level = l]
      [] e.stage = SUSTAIN -> [e EXCEPT !.level = e.sustain_level]
      [] e.stage = RELEASE ->
            LET l == e.level - e.release_rate
            IN  IF l <= 0
                THEN [e EXCEPT !.level = 0, !.stage = IDLE]
                ELSE [e EXCEPT !.level = l]
      [] OTHER -> [e EXCEPT !.level = 0]

\* An envelope whose sustain keeps decaying, and ends in IDLE at level 0.
process_sustain_droops(e) ==
    CASE e.stage = ATTACK ->
            LET l == e.level + e.attack_rate
            IN  IF l >= LevelOne
                THEN [e EXCEPT !.level = LevelOne, !.stage = DECAY]
                ELSE [e EXCEPT !.level = l]
      [] e.stage = DECAY ->
            LET l == e.level - e.decay_rate
            IN  IF l <= e.sustain_level
                THEN [e EXCEPT !.level = e.sustain_level, !.stage = SUSTAIN]
                ELSE [e EXCEPT !.level = l]
      [] e.stage = SUSTAIN ->
            LET l == e.level - e.decay_rate
            IN  IF l <= 0
                THEN [e EXCEPT !.level = 0, !.stage = IDLE]
                ELSE [e EXCEPT !.level = l]
      [] e.stage = RELEASE ->
            LET l == e.level - e.release_rate
            IN  IF l <= 0
                THEN [e EXCEPT !.level = 0, !.stage = IDLE]
                ELSE [e EXCEPT !.level = l]
      [] OTHER -> [e EXCEPT !.level = 0]

process(e) ==
    CASE e.stage = ATTACK ->
            LET l == e.level + e.attack_rate
            IN  IF l >= LevelOne
                THEN [e EXCEPT !.level = LevelOne, !.stage = DECAY]
                ELSE [e EXCEPT !.level = l]
      [] e.stage = DECAY ->
            LET l == e.level - e.decay_rate
            IN  IF l <= e.sustain_level
                THEN [e EXCEPT !.level = e.sustain_level, !.stage = SUSTAIN]
                ELSE [e EXCEPT !.level = l]
      [] e.stage = SUSTAIN -> [e EXCEPT !.level = e.sustain_level]
      [] e.stage = RELEASE ->
            LET l == e.level - e.release_rate
            IN  IF l <= 0
                THEN [e EXCEPT !.level = 0, !.stage = IDLE]
                ELSE [e EXCEPT !.level = l]
      [] OTHER -> [e EXCEPT !.level = 0]

(* -------------------------------- voices ------------------------------ *)

\* BraidsVoice after v2_create_instance: the fields the engine decides on.
\* pitch is the oscillator's pitch (osc.set_pitch), 0 in calloc'ed memory.
VoiceInit ==
    [note |-> 0, velocity |-> 0, active |-> 0, gate |-> 0, age |-> 0,
     pitch |-> 0, amp_env |-> EnvInit, filt_env |-> EnvInit]

note_to_pitch(note) == note * 128 + PITCH_CORRECTION

RECURSIVE first_inactive(_, _)
first_inactive(vs, i) ==
    IF i >= MAX_VOICES THEN -1
    ELSE IF vs[i].active = 0 THEN i
    ELSE first_inactive(vs, i + 1)

RECURSIVE steal_oldest(_, _, _, _)
steal_oldest(vs, i, oldest, oldest_age) ==
    IF i >= MAX_VOICES THEN oldest
    ELSE IF vs[i].age < oldest_age THEN steal_oldest(vs, i + 1, i, vs[i].age)
    ELSE steal_oldest(vs, i + 1, oldest, oldest_age)

\* An allocator that steals the first voice, whatever its age.
find_free_voice_steal_first(vs) ==
    LET f == first_inactive(vs, 0)
    IN  IF f >= 0 THEN f ELSE 0

\* An allocator that steals the last voice, whatever its age.
find_free_voice_steal_last(vs) ==
    LET f == first_inactive(vs, 0)
    IN  IF f >= 0 THEN f ELSE MAX_VOICES - 1

find_free_voice(vs) ==
    LET f == first_inactive(vs, 0)
    IN  IF f >= 0 THEN f ELSE steal_oldest(vs, 1, 0, vs[0].age)

RECURSIVE find_voice_scan(_, _, _, _)
find_voice_scan(vs, note, i, releasing) ==
    IF i >= MAX_VOICES THEN releasing
    ELSE IF vs[i].active # 0 /\ vs[i].note = note
         THEN IF vs[i].gate # 0 THEN i
              ELSE find_voice_scan(vs, note, i + 1, i)
         ELSE find_voice_scan(vs, note, i + 1, releasing)

\* A lookup that takes the first active voice with the note, gated or not.
RECURSIVE find_voice_first_match(_, _, _)
find_voice_first_match(vs, note, i) ==
    IF i >= MAX_VOICES THEN -1
    ELSE IF vs[i].active # 0 /\ vs[i].note = note THEN i
    ELSE find_voice_first_match(vs, note, i + 1)

find_voice_for_note_ungated(vs, note) == find_voice_first_match(vs, note, 0)

find_voice_for_note(vs, note) == find_voice_scan(vs, note, 0, -1)

\* apply_params_to_voice: the envelope part (shape, timbre, color and the
\* filter resonance go to the opaque oscillator and filter).
apply_params_to_voice(ps, v) ==
    [v EXCEPT
        !.amp_env = set_params(v.amp_env, ps[PARAM_ATTACK], ps[PARAM_DECAY],
                               ps[PARAM_SUSTAIN], ps[PARAM_RELEASE]),
        !.filt_env = set_params(v.filt_env, ps[PARAM_F_ATTACK], ps[PARAM_F_DECAY],
                                ps[PARAM_F_SUSTAIN], ps[PARAM_F_RELEASE])]

(* ------------------------------- presets ------------------------------ *)

\* A JSON text as json_get_number sees it: the keys it finds, and the number
\* atof reads after each.
Json(r) == [has |-> DOMAIN r, num |-> r]
EmptyJson == [has |-> {}, num |-> [k \in {} |-> 0]]

json_get_number(j, key) == key \in j.has

Clamp(x, lo, hi) == IF x < lo THEN lo ELSE IF x > hi THEN hi ELSE x

g_shape_names ==
    << "CSAW", "MORPH", "/\\-_", "SINE^", "BUZZ",
       "SQR<", "SAW<", "SQsync", "SWsync",
       "3xSAW", "3xSQR", "3xTRI", "3xSIN", "3xRNG",
       "SWARM", "COMB", "TOY",
       "ZLPF", "ZPKF", "ZBPF", "ZHPF",
       "VOSIM", "VOWL", "V.FOF",
       "HARM",
       "FM", "FBFM", "WTFM",
       "PLUK", "BOWD", "BLOW", "FLUT",
       "BELL", "DRUM", "KICK", "CYMB", "SNAR",
       "WTBL", "WMAP", "WLIN", "WTx4",
       "NOIS", "TWNQ", "CLKN", "GRN", "PART",
       "QPSK" >>

\* The loop "for i < NUM_SHAPES: if strcmp(str, g_shape_names[i]) == 0":
\* the index of the first shape called str, or -1.
RECURSIVE shape_index(_, _)
shape_index(str, i) ==
    IF i >= NUM_SHAPES THEN -1
    ELSE IF g_shape_names[i + 1] = str THEN i
    ELSE shape_index(str, i + 1)

\* Field defaults that leave an omitted sustain at zero.
PresetFieldDefaultsNoSustain ==
    << [key |-> "timbre",    index |-> PARAM_TIMBRE,    dflt |-> One \div 2],
       [key |-> "color",     index |-> PARAM_COLOR,     dflt |-> One \div 2],
       [key |-> "attack",    index |-> PARAM_ATTACK,    dflt |-> 0],
       [key |-> "decay",     index |-> PARAM_DECAY,     dflt |-> One \div 2],
       [key |-> "sustain",   index |-> PARAM_SUSTAIN,   dflt |-> 0],
       [key |-> "release",   index |-> PARAM_RELEASE,   dflt |-> (3 * One) \div 10],
       [key |-> "fm",        index |-> PARAM_FM,        dflt |-> 0],
       [key |-> "cutoff",    index |-> PARAM_CUTOFF,    dflt |-> One],
       [key |-> "resonance", index |-> PARAM_RESONANCE, dflt |-> 0],
       [key |-> "filt_env",  index |-> PARAM_FILT_ENV,  dflt |-> 0],
       [key |-> "f_attack",  index |-> PARAM_F_ATTACK,  dflt |-> 0],
       [key |-> "f_decay",   index |-> PARAM_F_DECAY,   dflt |-> (3 * One) \div 10],
       [key |-> "f_sustain", index |-> PARAM_F_SUSTAIN, dflt |-> 0],
       [key |-> "f_release", index |-> PARAM_F_RELEASE, dflt |-> (3 * One) \div 10],
       [key |-> "volume",    index |-> PARAM_VOLUME,    dflt |-> (7 * One) \div 10] >>

\* The float parameters load_braids_preset reads, each with the default it
\* synthesizes when the file has no such field.
PresetFieldDefaults ==
    << [key |-> "timbre",    index |-> PARAM_TIMBRE,    dflt |-> One \div 2],
       [key |-> "color",     index |-> PARAM_COLOR,     dflt |-> One \div 2],
       [key |-> "attack",    index |-> PARAM_ATTACK,    dflt |-> 0],
       [key |-> "decay",     index |-> PARAM_DECAY,     dflt |-> One \div 2],
       [key |-> "sustain",   index |-> PARAM_SUSTAIN,   dflt |-> One],
       [key |-> "release",   index |-> PARAM_RELEASE,   dflt |-> (3 * One) \div 10],
       [key |-> "fm",        index |-> PARAM_FM,        dflt |-> 0],
       [key |-> "cutoff",    index |-> PARAM_CUTOFF,    dflt |-> One],
       [key |-> "resonance", index |-> PARAM_RESONANCE, dflt |-> 0],
       [key |-> "filt_env",  index |-> PARAM_FILT_ENV,  dflt |-> 0],
       [key |-> "f_attack",  index |-> PARAM_F_ATTACK,  dflt |-> 0],
       [key |-> "f_decay",   index |-> PARAM_F_DECAY,   dflt |-> (3 * One) \div 10],
       [key |-> "f_sustain", index |-> PARAM_F_SUSTAIN, dflt |-> 0],
       [key |-> "f_release", index |-> PARAM_F_RELEASE, dflt |-> (3 * One) \div 10],
       [key |-> "volume",    index |-> PARAM_VOLUME,    dflt |-> (7 * One) \div 10] >>

\* A preset file: whether it can be opened and read (fopen, 0 < size <= 4096),
\* its "name" and "engine" strings when it has them, and its numbers.
\* load_braids_preset appends the preset it parses to the bank.
load_braids_preset(bank, f) ==
    IF Len(bank) >= MAX_PRESETS \/ ~f.readable THEN bank
    ELSE
      LET name == IF f.has_name THEN f.name
                  ELSE "Preset " \o ToString(Len(bank))
          engine == IF f.has_engine_str
                    THEN LET i == shape_index(f.engine_str, 0)
                         IN  IF i >= 0 THEN i * One ELSE 0
                    ELSE IF json_get_number(f.json, "engine")
                         THEN f.json.num["engine"] ELSE 0
          field(i) == LET d == CHOOSE d \in { PresetFieldDefaults[k] :
                                              k \in DOMAIN PresetFieldDefaults } :
                                    d.index = i
                      IN  IF json_get_number(f.json, d.key)
                          THEN f.json.num[d.key] ELSE d.dflt
          oct == IF json_get_number(f.json, "octave_transpose")
                 THEN Clamp(Trunc(f.json.num["octave_transpose"]), -3, 3)
                 ELSE 0
      IN  Append(bank,
                 [name |-> name,
                  params |-> [i \in Params |->
                                 IF i = PARAM_ENGINE THEN engine ELSE field(i)],
                  octave_transpose |-> oct])

\* preset_name_cmp: strcmp on the file names; a name is modelled by its rank
\* in lexicographic order.
preset_name_cmp(a, b) == a.fname < b.fname

\* The readdir loop over the entries lo .. hi of the directory (the first
\* half of the entries, then the rest): a .braids name is kept while fewer
\* than MAX_PRESETS names are held.
RECURSIVE collect_filenames(_, _, _, _)
collect_filenames(dir, lo, hi, acc) ==
    IF lo > hi THEN acc
    ELSE IF lo = hi
    THEN IF Len(acc) < MAX_PRESETS /\ dir[lo].is_braids
         THEN Append(acc, dir[lo]) ELSE acc
    ELSE LET mid == (lo + hi) \div 2
         IN  CHOOSE out \in { collect_filenames(dir, mid + 1, hi, x) :
                                x \in {collect_filenames(dir, lo, mid, acc)} } : TRUE

\* The loading loop over the sorted names lo .. hi (the first half of the
\* names, then the rest).
RECURSIVE load_each(_, _, _, _)
load_each(files, lo, hi, bank) ==
    IF lo > hi THEN bank
    ELSE IF lo = hi THEN load_braids_preset(bank, files[lo])
    ELSE LET mid == (lo + hi) \div 2
         IN  CHOOSE out \in { load_each(files, mid + 1, hi, x) :
                                x \in {load_each(files, lo, mid, bank)} } : TRUE

\* load_presets: the directory in readdir order -> the preset bank.
load_presets(dir) ==
    LET files == SortSeq(collect_filenames(dir, 1, Len(dir), <<>>), preset_name_cmp)
    IN  load_each(files, 1, Len(files), <<>>)

\* v2_apply_preset on the record st of the instance fields it writes.
v2_apply_preset(st, bank, preset_idx) ==
    IF preset_idx < 0 \/ preset_idx >= Len(bank) THEN st
    ELSE [st EXCEPT !.preset_name = bank[preset_idx + 1].name,
                    !.params = bank[preset_idx + 1].params,
                    !.octave_transpose = bank[preset_idx + 1].octave_transpose]

(* -------------------------------- state ------------------------------- *)

VARIABLES
    params,            \* braids_instance_t.params[PARAM_COUNT]
    octave_transpose,  \* braids_instance_t.octave_transpose
    voice_counter,     \* braids_instance_t.voice_counter
    voices,            \* braids_instance_t.voices[MAX_VOICES]
    presets,           \* braids_instance_t.presets[0 .. preset_count-1]
    preset_count,      \* braids_instance_t.preset_count
    current_preset,    \* braids_instance_t.current_preset
    preset_name,       \* braids_instance_t.preset_name
    mixed,             \* the audio output of the step: per voice, the frames of the
                       \*          rendered block it was mixed into (0 when no block
                       \*          was rendered)
    trig_order,        \* history: the voices in the order of their latest note-on
    fresh_ons,         \* history: the notes triggered so far, while nothing but
                       \*          note-ons, note-offs and transposes happened
    held,              \* history: per raw note, note-ons not yet answered by a note-off
    last_call          \* history: the latest API call an environment chose to record

inst == <<params, octave_transpose, voice_counter, voices, presets,
          preset_count, current_preset, preset_name>>
history == <<trig_order, fresh_ons, held, last_call>>
vars == <<inst, mixed, history>>

\* The output of a handler that renders nothing.
NoAudio == mixed' = [i \in Voices |-> 0]

\* v2_create_instance(module_dir) with the presets directory dir.
v2_create_instance(dir) ==
    LET bank == load_presets(dir)
        st0 == [params |-> DefaultParams, octave_transpose |-> 0,
                preset_name |-> "Init"]
        st == IF Len(bank) > 0 THEN v2_apply_preset(st0, bank, 0) ELSE st0
    IN  /\ params = st.params
        /\ octave_transpose = st.octave_transpose
        /\ preset_name = st.preset_name
        /\ voice_counter = 0
        /\ presets = bank
        /\ preset_count = Len(bank)
        /\ current_preset = 0
        /\ voices = [i \in Voices |-> VoiceInit]
        /\ mixed = [i \in Voices |-> 0]

(* ------------------------------- v2_on_midi --------------------------- *)

\* The transposition without its clamp.
TransposeNoteUnclamped(data1) == data1 + octave_transpose * 12

\* note += octave_transpose * 12, clamped to 0..127 (status 0x90 and 0x80).
TransposeNote(data1) == Clamp(data1 + octave_transpose * 12, 0, 127)

\* A note-on that stamps the voice with the counter before its increment.
NoteOnStaleAge(data1, data2) ==
    LET note == TransposeNote(data1)
        vi == find_free_voice(voices)
        v0 == [voices[vi] EXCEPT !.note = note, !.velocity = data2,
                                 !.active = 1, !.gate = 1,
                                 !.age = voice_counter,
                                 !.pitch = note_to_pitch(note)]
        v1 == apply_params_to_voice(params, v0)
    IN  /\ voices' = [voices EXCEPT
                        ![vi] = [v1 EXCEPT !.amp_env = gate_on(v1.amp_env),
                                           !.filt_env = gate_on(v1.filt_env)]]
        /\ voice_counter' = voice_counter + 1
        /\ UNCHANGED <<params, octave_transpose, presets, preset_count,
                       current_preset, preset_name>>
        /\ NoAudio

\* case 0x90 with data2 > 0.
NoteOn(data1, data2) ==
    LET note == TransposeNote(data1)
        vi == find_free_voice(voices)
        v0 == [voices[vi] EXCEPT !.note = note, !.velocity = data2,
                                 !.active = 1, !.gate = 1,
                                 !.age = voice_counter + 1,
                                 !.pitch = note_to_pitch(note)]
        v1 == apply_params_to_voice(params, v0)
    IN  /\ voices' = [voices EXCEPT
                        ![vi] = [v1 EXCEPT !.amp_env = gate_on(v1.amp_env),
                                           !.filt_env = gate_on(v1.filt_env)]]
        /\ voice_counter' = voice_counter + 1
        /\ UNCHANGED <<params, octave_transpose, presets, preset_count,
                       current_preset, preset_name>>
        /\ NoAudio

\* A note-off that releases every active voice holding the note.
NoteOffAll(data1) ==
    LET note == TransposeNote(data1)
    IN  /\ voices' = [i \in Voices |->
                        IF voices[i].active # 0 /\ voices[i].note = note
                        THEN [voices[i] EXCEPT
                                !.gate = 0,
                                !.amp_env = gate_off(voices[i].amp_env),
                                !.filt_env = gate_off(voices[i].filt_env)]
                        ELSE voices[i]]
        /\ UNCHANGED <<params, octave_transpose, voice_counter, presets,
                       preset_count, current_preset, preset_name>>
        /\ NoAudio

\* case 0x80, and case 0x90 with data2 = 0.
NoteOff(data1) ==
    LET note == TransposeNote(data1)
        vi == find_voice_for_note(voices, note)
    IN  /\ voices' = IF vi >= 0
                     THEN [voices EXCEPT ![vi].gate = 0,
                                         ![vi].amp_env = gate_off(voices[vi].amp_env),
                                         ![vi].filt_env = gate_off(voices[vi].filt_env)]
                     ELSE voices
        /\ UNCHANGED <<params, octave_transpose, voice_counter, presets,
                       preset_count, current_preset, preset_name>>
        /\ NoAudio

\* case 0xB0: CC 1 (mod wheel) sets the FM amount to data2 / 127.0f.
ControlChange(data1, data2) ==
    /\ params' = IF data1 = 1
                 THEN [params EXCEPT ![PARAM_FM] = (data2 * One) \div 127]
                 ELSE params
    /\ UNCHANGED <<octave_transpose, voice_counter, voices, presets,
                   preset_count, current_preset, preset_name>>
    /\ NoAudio

\* (data2 << 7) | data1 of two bytes.
RECURSIVE BitOr(_, _)
BitOr(a, b) ==
    IF a = 0 THEN b
    ELSE IF b = 0 THEN a
    ELSE 2 * BitOr(a \div 2, b \div 2) + (IF a % 2 = 1 \/ b % 2 = 1 THEN 1 ELSE 0)

\* case 0xE0: bend_semitones * 128 = bend / 32, truncated by the int16_t cast.
PitchBend(data1, data2) ==
    LET bend == BitOr(data2 * 128, data1) - 8192
        offset == IF bend >= 0 THEN bend \div 32 ELSE -((-bend) \div 32)
    IN  /\ voices' = [i \in Voices |->
                        IF voices[i].active # 0
                        THEN [voices[i] EXCEPT
                                !.pitch = note_to_pitch(voices[i].note) + offset]
                        ELSE voices[i]]
        /\ UNCHANGED <<params, octave_transpose, voice_counter, presets,
                       preset_count, current_preset, preset_name>>
        /\ NoAudio

\* v2_on_midi(msg, len) with len >= 2: status = msg[0] & 0xF0.
v2_on_midi(status, data1, data2) ==
    CASE status = 144 /\ data2 > 0 -> NoteOn(data1, data2)
      [] status = 144 /\ data2 = 0 -> NoteOff(data1)
      [] status = 128 -> NoteOff(data1)
      [] status = 176 -> ControlChange(data1, data2)
      [] status = 224 -> PitchBend(data1, data2)
      [] OTHER -> UNCHANGED inst /\ NoAudio

(* ------------------------------ v2_set_param -------------------------- *)

\* A value string as the handler reads it: the text itself (compared with the
\* shape names), what atof and atoi make of it, and the numbers
\* json_get_number finds in it.
NumVal(f) == [str |-> "", f |-> f, i |-> Trunc(f), json |-> EmptyJson]
StrVal(str) == [str |-> str, f |-> 0, i |-> 0, json |-> EmptyJson]
JsonVal(r) == [str |-> "", f |-> 0, i |-> 0, json |-> Json(r)]

\* The loop over g_shadow_params of the "state" branch: every key the JSON
\* holds overrides its parameter, clamped.
RECURSIVE restore_params(_, _, _)
restore_params(ps, j, i) ==
    IF i > Len(g_shadow_params) THEN ps
    ELSE LET d == g_shadow_params[i]
         IN  IF json_get_number(j, d.key)
             THEN restore_params(
                      [ps EXCEPT ![d.index] = Clamp(j.num[d.key], d.min_val, d.max_val)],
                      j, i + 1)
             ELSE restore_params(ps, j, i + 1)

\* A restore that takes over the saved preset index without the range check.
SetStateAnyIndex(j) ==
    LET st0 == [params |-> params, octave_transpose |-> octave_transpose,
                preset_name |-> preset_name]
        idx == IF json_get_number(j, "preset") THEN Trunc(j.num["preset"]) ELSE -1
        st1 == IF json_get_number(j, "preset")
               THEN v2_apply_preset(st0, presets, idx) ELSE st0
        oct == IF json_get_number(j, "octave_transpose")
               THEN Clamp(Trunc(j.num["octave_transpose"]), -3, 3)
               ELSE st1.octave_transpose
    IN  /\ current_preset' = IF json_get_number(j, "preset") THEN idx
                             ELSE current_preset
        /\ preset_name' = st1.preset_name
        /\ octave_transpose' = oct
        /\ params' = restore_params(st1.params, j, 1)
        /\ UNCHANGED <<voice_counter, voices, presets, preset_count>>
        /\ NoAudio

\* key "state".
SetState(j) ==
    LET st0 == [params |-> params, octave_transpose |-> octave_transpose,
                preset_name |-> preset_name]
        idx == IF json_get_number(j, "preset") THEN Trunc(j.num["preset"]) ELSE -1
        hit == json_get_number(j, "preset") /\ idx >= 0 /\ idx < preset_count
        st1 == IF hit THEN v2_apply_preset(st0, presets, idx) ELSE st0
        oct == IF json_get_number(j, "octave_transpose")
               THEN Clamp(Trunc(j.num["octave_transpose"]), -3, 3)
               ELSE st1.octave_transpose
    IN  /\ current_preset' = IF hit THEN idx ELSE current_preset
        /\ preset_name' = st1.preset_name
        /\ octave_transpose' = oct
        /\ params' = restore_params(st1.params, j, 1)
        /\ UNCHANGED <<voice_counter, voices, presets, preset_count>>
        /\ NoAudio

\* A transpose stored as atoi read it.
SetOctaveTransposeRaw(val) ==
    /\ octave_transpose' = val.i
    /\ UNCHANGED <<params, voice_counter, voices, presets, preset_count,
                   current_preset, preset_name>>
    /\ NoAudio

\* key "octave_transpose".
SetOctaveTranspose(val) ==
    /\ octave_transpose' = Clamp(val.i, -3, 3)
    /\ UNCHANGED <<params, voice_counter, voices, presets, preset_count,
                   current_preset, preset_name>>
    /\ NoAudio

\* A preset selection that leaves the range check to v2_apply_preset.
SetPresetUnchecked(val) ==
    LET idx == val.i
        st0 == [params |-> params, octave_transpose |-> octave_transpose,
                preset_name |-> preset_name]
        st1 == v2_apply_preset(st0, presets, idx)
    IN  /\ voices' = [i \in Voices |->
                        [voices[i] EXCEPT !.active = 0, !.gate = 0,
                                          !.amp_env = init(voices[i].amp_env),
                                          !.filt_env = init(voices[i].filt_env)]]
        /\ current_preset' = idx
        /\ params' = st1.params
        /\ octave_transpose' = st1.octave_transpose
        /\ preset_name' = st1.preset_name
        /\ UNCHANGED <<voice_counter, presets, preset_count>>
        /\ NoAudio

\* key "preset": a valid index kills every voice, then applies the preset.
SetPreset(val) ==
    LET idx == val.i
        st0 == [params |-> params, octave_transpose |-> octave_transpose,
                preset_name |-> preset_name]
        st1 == v2_apply_preset(st0, presets, idx)
    IN  IF idx >= 0 /\ idx < preset_count
        THEN /\ voices' = [i \in Voices |->
                             [voices[i] EXCEPT !.active = 0, !.gate = 0,
                                               !.amp_env = init(voices[i].amp_env),
                                               !.filt_env = init(voices[i].filt_env)]]
             /\ current_preset' = idx
             /\ params' = st1.params
             /\ octave_transpose' = st1.octave_transpose
             /\ preset_name' = st1.preset_name
             /\ UNCHANGED <<voice_counter, presets, preset_count>>
             /\ NoAudio
        ELSE UNCHANGED inst /\ NoAudio

\* key "engine": a shape name, else a number.
SetEngine(val) ==
    LET i == shape_index(val.str, 0)
        v == IF val.f < 0 THEN 0
             ELSE IF val.f >= NUM_SHAPES * One THEN (NUM_SHAPES - 1) * One
             ELSE val.f
    IN  /\ params' = [params EXCEPT ![PARAM_ENGINE] = IF i >= 0 THEN i * One ELSE v]
        /\ UNCHANGED <<octave_transpose, voice_counter, voices, presets,
                       preset_count, current_preset, preset_name>>
        /\ NoAudio

\* The index in g_shadow_params of the first entry with this key, or 0.
RECURSIVE param_def_index(_, _)
param_def_index(key, i) ==
    IF i > Len(g_shadow_params) THEN 0
    ELSE IF g_shadow_params[i].key = key THEN i
    ELSE param_def_index(key, i + 1)

\* Named parameter access that takes a key the table lacks for its last
\* entry.
SetNamedOrLast(key, val) ==
    LET k0 == param_def_index(key, 1)
        k == IF k0 > 0 THEN k0 ELSE Len(g_shadow_params)
    IN  /\ params' = [params EXCEPT ![g_shadow_params[k].index] =
                          Clamp(val.f, g_shadow_params[k].min_val,
                                g_shadow_params[k].max_val)]
        /\ UNCHANGED <<octave_transpose, voice_counter, voices, presets,
                       preset_count, current_preset, preset_name>>
        /\ NoAudio

\* Named parameter access (any other key).
SetNamed(key, val) ==
    LET k == param_def_index(key, 1)
    IN  /\ params' = IF k > 0
                     THEN [params EXCEPT ![g_shadow_params[k].index] =
                              Clamp(val.f, g_shadow_params[k].min_val,
                                    g_shadow_params[k].max_val)]
                     ELSE params
        /\ UNCHANGED <<octave_transpose, voice_counter, voices, presets,
                       preset_count, current_preset, preset_name>>
        /\ NoAudio

v2_set_param(key, val) ==
    CASE key = "state" -> SetState(val.json)
      [] key = "octave_transpose" -> SetOctaveTranspose(val)
      [] key = "preset" -> SetPreset(val)
      [] key = "engine" -> SetEngine(val)
      [] OTHER -> SetNamed(key, val)

(* ------------------------------ v2_get_param -------------------------- *)

\* The number "%.4f" prints for a float: rounded to four decimals.
Format4(x) ==
    IF x >= 0 THEN ((x + 5) \div 10) * 10 ELSE -((((-x) + 5) \div 10) * 10)

\* The four decimals of "%.4f".
Pad4(n) ==
    (IF n < 10 THEN "000" ELSE IF n < 100 THEN "00" ELSE IF n < 1000 THEN "0" ELSE "")
        \o ToString(n)

\* The text "%.4f" prints for a float.
FloatText(x) ==
    LET r == (IF x >= 0 THEN Format4(x) ELSE -Format4(x)) \div 10
    IN  (IF x < 0 /\ r > 0 THEN "-" ELSE "")
            \o ToString(r \div 10000) \o "." \o Pad4(r % 10000)

\* What a get_param call hands back: the return value, the text written to
\* the buffer, and the numbers json_get_number would read from that text.
Reply(text) == [ret |-> Len(text), text |-> text, json |-> EmptyJson]
NoReply == [ret |-> -1, text |-> "", json |-> EmptyJson]

\* param_helper_get: the stored value of a named parameter, formatted per
\* declared type (an integer without fractional digits); -1 for a key the
\* table does not hold.
param_helper_get(ps, key) ==
    LET k == param_def_index(key, 1)
    IN  IF k = 0 THEN NoReply
        ELSE LET d == g_shadow_params[k]
             IN  IF d.is_int THEN Reply(ToString(Trunc(ps[d.index])))
                 ELSE Reply(FloatText(ps[d.index]))

\* The keys of the "state" object.
StateKeys ==
    {"preset", "octave_transpose"}
        \cup {g_shadow_params[k].key : k \in DOMAIN g_shadow_params}

\* The numbers of the "state" object: preset and octave_transpose as "%d",
\* an integer parameter as "%d" of (int)val, a float parameter as "%.4f".
state_numbers ==
    [key \in StateKeys |->
        CASE key = "preset" -> current_preset * One
          [] key = "octave_transpose" -> octave_transpose * One
          [] OTHER ->
                LET d == g_shadow_params[param_def_index(key, 1)]
                IN  IF d.is_int THEN Trunc(params[d.index]) * One
                    ELSE Format4(params[d.index])]

\* The loop that prints ,"key":value for every entry of g_shadow_params.
RECURSIVE state_params_text(_)
state_params_text(i) ==
    IF i > Len(g_shadow_params) THEN ""
    ELSE LET d == g_shadow_params[i]
         IN  ",\"" \o d.key \o "\":"
                 \o (IF d.is_int THEN ToString(Trunc(params[d.index]))
                     ELSE FloatText(params[d.index]))
                 \o state_params_text(i + 1)

state_text ==
    "{\"preset\":" \o ToString(current_preset)
        \o ",\"octave_transpose\":" \o ToString(octave_transpose)
        \o state_params_text(1) \o "}"

\* strlen of the "ui_hierarchy" literal, and the length of the
\* "chain_params" text (both are fixed texts).
UiHierarchyLen == 1048
ChainParamsLen == 1456

\* v2_get_param(key, buf, buf_len), for a buffer that holds the reply.
v2_get_param(key, buf_len) ==
    CASE key = "name" -> Reply("Braids")
      [] key = "octave_transpose" -> Reply(ToString(octave_transpose))
      [] key = "preset" -> Reply(ToString(current_preset))
      [] key = "preset_count" -> Reply(ToString(preset_count))
      [] key = "preset_name" -> Reply(preset_name)
      [] key \in {"engine", "engine_name"} ->
            Reply(g_shape_names[Clamp(Trunc(params[PARAM_ENGINE]), 0, NUM_SHAPES - 1) + 1])
      [] OTHER ->
            LET result == param_helper_get(params, key)
            IN  IF result.ret >= 0 THEN result
                ELSE CASE key = "ui_hierarchy" ->
                            IF UiHierarchyLen < buf_len
                            THEN [ret |-> UiHierarchyLen, text |-> "{\"modes\":null,...}",
                                  json |-> EmptyJson]
                            ELSE NoReply
                       [] key = "state" ->
                            [ret |-> Len(state_text), text |-> state_text,
                             json |-> Json(state_numbers)]
                       [] key = "chain_params" ->
                            [ret |-> ChainParamsLen, text |-> "[{\"key\":\"engine\",...}]",
                             json |-> EmptyJson]
                       [] OTHER -> NoReply

(* ----------------------------- v2_render_block ------------------------ *)

\* A sample loop that deactivates a voice as soon as it is ungated.
RECURSIVE render_samples_cut(_, _, _)
render_samples_cut(r, s, block_size) ==
    IF s >= block_size THEN r
    ELSE CHOOSE out \in
            { LET v1 == [x.v EXCEPT !.amp_env = process(x.v.amp_env),
                                    !.filt_env = process(x.v.filt_env)]
              IN  IF v1.gate = 0
                  THEN [v |-> [v1 EXCEPT !.active = 0], n |-> x.n]
                  ELSE render_samples_cut([v |-> v1, n |-> x.n + 1], s + 1, block_size)
              : x \in {r} } : TRUE

\* A sample loop that clears the age of the voice it deactivates.
RECURSIVE render_samples_reset_age(_, _, _)
render_samples_reset_age(r, s, block_size) ==
    IF s >= block_size THEN r
    ELSE CHOOSE out \in
            { LET v1 == [x.v EXCEPT !.amp_env = process(x.v.amp_env),
                                    !.filt_env = process(x.v.filt_env)]
              IN  IF v1.gate = 0 /\ ~is_active(v1.amp_env)
                  THEN [v |-> [v1 EXCEPT !.active = 0, !.age = 0], n |-> x.n]
                  ELSE render_samples_reset_age([v |-> v1, n |-> x.n + 1], s + 1,
                                                block_size)
              : x \in {r} } : TRUE

\* The sample loop "for s < block_size" of one sub-block, from sample s on:
\* both envelopes advance; an ungated voice whose amplitude envelope is idle
\* is deactivated and the loop left, else the sample is mixed.  r.n counts
\* the frames mixed so far.  (x is the value of r, computed once.)
RECURSIVE render_samples(_, _, _)
render_samples(r, s, block_size) ==
    IF s >= block_size THEN r
    ELSE CHOOSE out \in
            { LET v1 == [x.v EXCEPT !.amp_env = process(x.v.amp_env),
                                    !.filt_env = process(x.v.filt_env)]
              IN  IF v1.gate = 0 /\ ~is_active(v1.amp_env)
                  THEN [v |-> [v1 EXCEPT !.active = 0], n |-> x.n]
                  ELSE render_samples([v |-> v1, n |-> x.n + 1], s + 1, block_size)
              : x \in {r} } : TRUE

\* A loop over sub-blocks that never shortens the last one.
RECURSIVE render_blocks_whole(_, _, _)
render_blocks_whole(r, rendered, frames) ==
    IF rendered >= frames THEN r
    ELSE CHOOSE out \in
            { IF r1.v.active = 0 THEN r1
              ELSE render_blocks_whole(r1, rendered + BRAIDS_BLOCK_SIZE, frames)
              : r1 \in {render_samples(r, 0, BRAIDS_BLOCK_SIZE)} } : TRUE

\* The sizes of the sub-blocks the loop "while (rendered < frames)" goes
\* through for a voice that stays active.
RECURSIVE block_sizes(_, _)
block_sizes(rendered, frames) ==
    IF rendered >= frames THEN <<>>
    ELSE LET block_size == IF rendered + BRAIDS_BLOCK_SIZE > frames
                           THEN frames - rendered ELSE BRAIDS_BLOCK_SIZE
         IN  <<block_size>> \o block_sizes(rendered + block_size, frames)

\* The loop "while (rendered < frames)" over sub-blocks of BRAIDS_BLOCK_SIZE.
\* (r1 is the voice after the sub-block, computed once.)
RECURSIVE render_blocks(_, _, _)
render_blocks(r, rendered, frames) ==
    IF rendered >= frames THEN r
    ELSE LET block_size == IF rendered + BRAIDS_BLOCK_SIZE > frames
                           THEN frames - rendered ELSE BRAIDS_BLOCK_SIZE
         IN  CHOOSE out \in
                { IF r1.v.active = 0 THEN r1
                  ELSE render_blocks(r1, rendered + block_size, frames)
                  : r1 \in {render_samples(r, 0, block_size)} } : TRUE

\* A voice rendered with the envelope settings it already carries.
render_voice_cached(ps, v, frames) ==
    IF v.active = 0 THEN [v |-> v, n |-> 0]
    ELSE LET fm == IF ps[PARAM_FM] > One \div 1000
                   THEN (ps[PARAM_FM] * 1536) \div One ELSE 0
             v2 == [v EXCEPT !.pitch = note_to_pitch(v.note) + fm]
         IN  render_blocks([v |-> v2, n |-> 0], 0, frames)

\* The body of "for vi < MAX_VOICES" for one voice.
render_voice(ps, v, frames) ==
    IF v.active = 0 THEN [v |-> v, n |-> 0]
    ELSE LET v1 == apply_params_to_voice(ps, v)
             fm == IF ps[PARAM_FM] > One \div 1000
                   THEN (ps[PARAM_FM] * 1536) \div One ELSE 0
             v2 == [v1 EXCEPT !.pitch = note_to_pitch(v.note) + fm]
         IN  render_blocks([v |-> v2, n |-> 0], 0, frames)

v2_render_block(frames) ==
    LET r == [i \in Voices |-> render_voice(params, voices[i], frames)]
    IN  /\ voices' = [i \in Voices |-> r[i].v]
        /\ mixed' = [i \in Voices |-> r[i].n]
        /\ UNCHANGED <<params, octave_transpose, voice_counter, presets,
                       preset_count, current_preset, preset_name>>

\* (int32_t)(a / b) for b > 0: truncation toward zero.
TruncDiv(a, b) == IF a >= 0 THEN a \div b ELSE -((-a) \div b)

\* The saturation of a mixed sample to the int16_t range.
Sat16(x) == Clamp(x, -32768, 32767)

\* use_filter: the filter is bypassed unless one of the three holds.
use_filter(ps) ==
    \/ ps[PARAM_CUTOFF] < (99 * One) \div 100
    \/ ps[PARAM_RESONANCE] > One \div 100
    \/ ps[PARAM_FILT_ENV] > One \div 100

\* n process() steps of an envelope: the first half of the steps, then the
\* rest.  (x is the envelope after the first half, computed once.)
RECURSIVE process_n(_, _)
process_n(e, n) ==
    IF n = 0 THEN e
    ELSE IF n = 1 THEN CHOOSE out \in { process(x) : x \in {e} } : TRUE
    ELSE CHOOSE out \in
            { process_n(x, n - (n \div 2)) : x \in {process_n(e, n \div 2)} } : TRUE

\* One voice's sample mixed into the output sample acc, the filter bypassed:
\* the oscillator's sample osc scaled by the envelope level amp (taken to a
\* thousandth), by velocity / 127 and by the gain volume / MAX_VOICES, each
\* product truncated to an integer, and the sum saturated.
mix_sample(acc, osc, amp, velocity, volume) ==
    LET sample == TruncDiv(osc * (amp \div (LevelOne \div 1000)), 1000)
        scaled == TruncDiv(sample * velocity, 127)
        gained == TruncDiv(scaled * (volume \div 100), 1000 * MAX_VOICES)
    IN  Sat16(acc + gained)

\* Frame f of the block render_block(frames) writes when the oscillators of
\* all voices give the sample osc: the voices are mixed in index order, a
\* voice into the frames before its deactivation.
RECURSIVE out_mix(_, _, _, _, _, _, _)
out_mix(ps, vs, frames, f, osc, i, acc) ==
    IF i >= MAX_VOICES THEN acc
    ELSE IF vs[i].active # 0 /\ f < render_voice(ps, vs[i], frames).n
         THEN out_mix(ps, vs, frames, f, osc, i + 1,
                      mix_sample(acc, osc,
                                 process_n(apply_params_to_voice(ps, vs[i]).amp_env,
                                           f + 1).level,
                                 vs[i].velocity, ps[PARAM_VOLUME]))
         ELSE out_mix(ps, vs, frames, f, osc, i + 1, acc)

out_sample(ps, vs, frames, f, osc) == out_mix(ps, vs, frames, f, osc, 0, 0)

(* ------------------------------- histories ---------------------------- *)

\* Bound of the checked behaviours: the note-ons of one behaviour.
MaxNoteOns == 6

\* The n-th note-on a player sends: the keys of an ascending scale that ends
\* on the last MIDI note, each struck a little harder than the one before.
BaseNote == 128 - MaxNoteOns
RawNoteAt(n) == BaseNote + n
VelocityAt(n) == 100 + n

Poisoned == <<[v |-> -1, note |-> -1]>>

\* No call recorded.
NoCall == [op |-> "", key |-> "", val |-> 0]

HistInit ==
    /\ trig_order = <<>>
    /\ fresh_ons = <<>>
    /\ held = {}
    /\ last_call = NoCall

\* A note-on: the voice the handler changed moves to the end of trig_order,
\* and its new note is appended to fresh_ons.
HistNoteOn(data1) ==
    LET ch == {v \in Voices : voices'[v] # voices[v]}
    IN  /\ trig_order' = IF ch = {} THEN trig_order
                         ELSE LET v == CHOOSE v \in ch : TRUE
                              IN  Append(SelectSeq(trig_order, LAMBDA x : x # v), v)
        /\ fresh_ons' = IF fresh_ons = Poisoned \/ ch = {} THEN fresh_ons
                        ELSE LET v == CHOOSE v \in ch : TRUE
                             IN  Append(fresh_ons, [v |-> v, note |-> voices'[v].note])
        /\ UNCHANGED <<held, last_call>>

\* A render or a voice kill ends the run of note-ons on the fresh instance.
HistBreak ==
    /\ fresh_ons' = Poisoned
    /\ UNCHANGED <<trig_order, held, last_call>>

(* ------------------------ the voice allocator at work ----------------- *)

\* One preset with a 1 ms attack, decay and release: one 96-frame block
\* takes a held voice to sustain and a released voice to silence.
VoicePresetFile ==
    [fname |-> 1, is_braids |-> TRUE, readable |-> TRUE,
     has_name |-> TRUE, name |-> "Pluck",
     has_engine_str |-> TRUE, engine_str |-> "PLUK",
     json |-> Json([attack |-> 0, decay |-> 0, sustain |-> One,
                    release |-> 0, f_decay |-> 0, f_release |-> 0])]

InitVoices == v2_create_instance(<<VoicePresetFile>>) /\ HistInit

PlayNoteOn ==
    /\ voice_counter < MaxNoteOns
    /\ v2_on_midi(144, RawNoteAt(voice_counter), VelocityAt(voice_counter))
    /\ HistNoteOn(RawNoteAt(voice_counter))

\* A key that was struck is lifted.
PlayNoteOff ==
    \E n \in 0 .. (voice_counter - 1) :
        v2_on_midi(128, RawNoteAt(n), 0) /\ UNCHANGED history

PlayNoteOnZero ==
    v2_on_midi(144, RawNoteAt(0), 0) /\ UNCHANGED history

Transpose ==
    v2_set_param("octave_transpose", NumVal(One)) /\ UNCHANGED history

RenderBlock ==
    v2_render_block(96) /\ HistBreak

ReloadPreset ==
    v2_set_param("preset", NumVal(0)) /\ HistBreak

NextVoices ==
    \/ PlayNoteOn
    \/ PlayNoteOff
    \/ PlayNoteOnZero
    \/ Transpose
    \/ RenderBlock
    \/ ReloadPreset

SpecVoices == InitVoices /\ [][NextVoices]_vars

(* --------------------------- keys held and lifted --------------------- *)

\* Bound: the note-ons of one behaviour of SpecHeld.
MaxHeldOns == 2

HeldKeys == {60, 64}

InitHeld == v2_create_instance(<<VoicePresetFile>>) /\ HistInit

\* A key that is up goes down.
PressKey ==
    \E r \in HeldKeys \ held :
        /\ voice_counter < MaxHeldOns
        /\ v2_on_midi(144, r, 100)
        /\ held' = held \cup {r}
        /\ UNCHANGED <<trig_order, fresh_ons, last_call>>

\* A key goes up: note-off, or note-on with velocity 0.
LiftKey ==
    \E r \in HeldKeys, status \in {128, 144} :
        /\ v2_on_midi(status, r, 0)
        /\ held' = held \ {r}
        /\ UNCHANGED <<trig_order, fresh_ons, last_call>>

ShiftOctave ==
    \E x \in {-1, 1} :
        v2_set_param("octave_transpose", NumVal(x * One)) /\ UNCHANGED history

RestoreState ==
    v2_set_param("state", JsonVal([octave_transpose |-> 0])) /\ UNCHANGED history

RenderHeld ==
    v2_render_block(128) /\ UNCHANGED history

NextHeld ==
    \/ PressKey
    \/ LiftKey
    \/ ShiftOctave
    \/ RestoreState
    \/ RenderHeld

SpecHeld == InitHeld /\ [][NextHeld]_vars

(* ------------------------------ release tails ------------------------- *)

\* Bound: the note-ons of one behaviour of SpecRelease with a short release.
MaxStrikes == 2

\* The release parameter of the behaviour: both ends of [0, 1] and a value
\* between.  The voices sustain at a tenth of full level, from where the
\* ten-second release takes a second to run out.
ReleaseTimes == {0, One \div 10, One}

ReleasePresetFile(rel) ==
    [fname |-> 1, is_braids |-> TRUE, readable |-> TRUE,
     has_name |-> TRUE, name |-> "Tail",
     has_engine_str |-> FALSE, engine_str |-> "",
     json |-> Json([attack |-> 0, decay |-> 0, sustain |-> One \div 10,
                    release |-> rel, f_decay |-> 0, f_release |-> 0])]

InitRelease ==
    \E rel \in ReleaseTimes :
        v2_create_instance(<<ReleasePresetFile(rel)>>) /\ HistInit

\* The ten-second release is played once, the shorter ones MaxStrikes times.
Strike ==
    /\ voice_counter < (IF params[PARAM_RELEASE] >= One THEN 1 ELSE MaxStrikes)
    /\ v2_on_midi(144, 60 + voice_counter, 100)
    /\ UNCHANGED history

Lift ==
    \E n \in 0 .. (MaxStrikes - 1) :
        v2_on_midi(128, 60 + n, 0) /\ UNCHANGED history

RenderRelease ==
    v2_render_block(128) /\ UNCHANGED history

NextRelease ==
    \/ Strike
    \/ Lift
    \/ RenderRelease

\* The host calls render_block for every audio block, for ever.
SpecRelease == InitRelease /\ [][NextRelease]_vars /\ WF_vars(RenderRelease)

(* --------------------------- envelopes, per sample -------------------- *)

\* Bound: the note-ons of one behaviour of SpecEnv.
MaxEnvOns == 2

EnvKey == 60

\* The amplitude envelope sustains at a quarter, the filter envelope at a
\* half: the filter envelope is still releasing when the amplitude envelope
\* reaches idle.
EnvPresetFile ==
    [fname |-> 1, is_braids |-> TRUE, readable |-> TRUE,
     has_name |-> FALSE, name |-> "",
     has_engine_str |-> FALSE, engine_str |-> "",
     json |-> Json([attack |-> 0, decay |-> 0, sustain |-> One \div 4,
                    release |-> 0, f_attack |-> 0, f_decay |-> 0,
                    f_sustain |-> One \div 2, f_release |-> 0])]

InitEnv == v2_create_instance(<<EnvPresetFile>>) /\ HistInit

EnvNoteOn ==
    /\ voice_counter < MaxEnvOns
    /\ v2_on_midi(144, EnvKey, 100)
    /\ UNCHANGED history

EnvNoteOff ==
    v2_on_midi(128, EnvKey, 0) /\ UNCHANGED history

\* One sample of audio.
EnvRender ==
    v2_render_block(1) /\ UNCHANGED history

EnvSelectPreset ==
    v2_set_param("preset", NumVal(0)) /\ UNCHANGED history

NextEnv ==
    \/ EnvNoteOn
    \/ EnvNoteOff
    \/ EnvRender
    \/ EnvSelectPreset

SpecEnv == InitEnv /\ [][NextEnv]_vars

(* ------------------------ held notes, sample by sample ---------------- *)

\* Bound: the note-ons of one behaviour of SpecAdsr.
MaxAdsrOns == 5

\* The attack and decay parameters of a behaviour: 1 ms and 5 ms.
AdsrTimes == {0, One \div 50}

\* The sustain parameter: the player turns it between a quarter and full.
AdsrSustains == {One \div 4, One}

AdsrPresetFile(a, d) ==
    [fname |-> 1, is_braids |-> TRUE, readable |-> TRUE,
     has_name |-> TRUE, name |-> "Held",
     has_engine_str |-> FALSE, engine_str |-> "",
     json |-> Json([attack |-> a, decay |-> d, sustain |-> One \div 4,
                    release |-> 0, f_attack |-> 0, f_decay |-> d,
                    f_sustain |-> One \div 2, f_release |-> 0])]

InitAdsr ==
    \E a \in AdsrTimes, d \in AdsrTimes :
        v2_create_instance(<<AdsrPresetFile(a, d)>>) /\ HistInit

\* Every sounding voice has reached sustain with both envelopes.
Settled ==
    \A i \in Voices :
        voices[i].active # 0 =>
            /\ voices[i].amp_env.stage = SUSTAIN
            /\ voices[i].filt_env.stage = SUSTAIN

\* The next key goes down once the sounding voices have settled; the fifth
\* steals the first voice out of its sustain.  No key is lifted.
AdsrNoteOn ==
    /\ voice_counter < MaxAdsrOns
    /\ Settled
    /\ v2_on_midi(144, 60 + voice_counter, 100)
    /\ UNCHANGED history

\* One sample of audio: one process() step of each sounding envelope.
AdsrRender ==
    v2_render_block(1) /\ UNCHANGED history

AdsrSetSustain ==
    \E s \in AdsrSustains :
        v2_set_param("sustain", NumVal(s)) /\ UNCHANGED history

NextAdsr ==
    \/ AdsrNoteOn
    \/ AdsrRender
    \/ AdsrSetSustain

\* The host calls render_block for every audio block, for ever.
SpecAdsr == InitAdsr /\ [][NextAdsr]_vars /\ WF_vars(AdsrRender)

(* ---------------------- the store, the bank and the host -------------- *)

\* Bound: the note-ons of one behaviour of SpecStore.
MaxStoreOns == 1

\* The size of the host's reply buffer.
BufLen == 4096

\* A preset file that holds an empty object: no name, no parameter field.
BarePresetFile ==
    [fname |-> 1, is_braids |-> TRUE, readable |-> TRUE,
     has_name |-> FALSE, name |-> "",
     has_engine_str |-> FALSE, engine_str |-> "",
     json |-> EmptyJson]

\* A preset file with every field but "sustain", and a transpose of -7.5.
EdgePresetFile ==
    [fname |-> 2, is_braids |-> TRUE, readable |-> TRUE,
     has_name |-> TRUE, name |-> "Edge",
     has_engine_str |-> FALSE, engine_str |-> "",
     json |-> Json([engine |-> 7 * One, timbre |-> One \div 4,
                    color |-> (3 * One) \div 4, attack |-> 0, decay |-> 0,
                    release |-> 0, fm |-> 0, cutoff |-> One, resonance |-> 0,
                    filt_env |-> 0, f_attack |-> 0, f_decay |-> 0,
                    f_sustain |-> 0, f_release |-> 0, volume |-> One,
                    octave_transpose |-> -((15 * One) \div 2)])]

\* A preset file with a transpose of 7 and a short release, nothing else.
HighPresetFile ==
    [fname |-> 3, is_braids |-> TRUE, readable |-> TRUE,
     has_name |-> TRUE, name |-> "High",
     has_engine_str |-> FALSE, engine_str |-> "",
     json |-> Json([release |-> 0, octave_transpose |-> 7 * One])]

\* The presets directory: missing or empty, or holding the three files.
StoreDirs == {<<>>, <<BarePresetFile, EdgePresetFile, HighPresetFile>>}

InitStore ==
    \E dir \in StoreDirs : v2_create_instance(dir) /\ HistInit

\* The environment records the call it makes.
Called(op, key, val) ==
    /\ last_call' = [op |-> op, key |-> key, val |-> val]
    /\ UNCHANGED <<trig_order, fresh_ons, held>>

\* A value string that atoi reads as i (a decimal too long for an int may
\* be read as any int, the ends of the int range among them).
IntVal(i) == [str |-> "", f |-> 0, i |-> i, json |-> EmptyJson]

StoreSetNamed ==
    \E key \in {"timbre", "gain"}, f \in {-One, 12345} :
        v2_set_param(key, NumVal(f)) /\ Called("set_param", key, f)

StoreSetOctave ==
    \E i \in {-2147483647, -2, 2147483647} :
        v2_set_param("octave_transpose", IntVal(i))
            /\ Called("set_param", "octave_transpose", i)

StoreSelectPreset ==
    \E idx \in {-1, 0, 1, 2, 3} :
        v2_set_param("preset", IntVal(idx)) /\ Called("set_param", "preset", idx)

StoreSetState ==
    \E r \in {[octave_transpose |-> 9 * One],
               [preset |-> 7 * One, octave_transpose |-> -((5 * One) \div 2)]} :
        v2_set_param("state", JsonVal(r)) /\ Called("set_param", "state", 0)

\* The host saves the patch and loads it again.
StoreSaveRestore ==
    LET saved == v2_get_param("state", BufLen)
    IN  /\ v2_set_param("state", [str |-> saved.text, f |-> 0, i |-> 0,
                                   json |-> saved.json])
        /\ Called("save_restore", "state", 0)

StoreModWheel ==
    v2_on_midi(176, 1, 1) /\ Called("on_midi", "", 176)

StoreKeyOn ==
    /\ voice_counter < MaxStoreOns
    /\ v2_on_midi(144, 60, 100)
    /\ Called("on_midi", "", 144)

\* The key is lifted in the patches with a 1 ms release.
StoreKeyOff ==
    /\ params[PARAM_RELEASE] = 0
    /\ v2_on_midi(128, 60, 0)
    /\ Called("on_midi", "", 128)

\* The host's audio callback, looked at for the block that follows a
\* note-on, a note-off or the silencing of the voices.
StoreRender ==
    /\ \/ \A i \in Voices : voices[i].active = 0
       \/ \E i \in Voices :
             voices[i].active # 0 /\ voices[i].amp_env.stage # SUSTAIN
    /\ v2_render_block(128)
    /\ Called("render_block", "", 128)

NextStore ==
    \/ StoreSetNamed
    \/ StoreSetOctave
    \/ StoreSelectPreset
    \/ StoreSetState
    \/ StoreSaveRestore
    \/ StoreModWheel
    \/ StoreKeyOn
    \/ StoreKeyOff
    \/ StoreRender

SpecStore == InitStore /\ [][NextStore]_vars

(* ------------------------- the whole control surface ------------------ *)

\* Bound: the note-ons of one behaviour of Spec.
MaxKeyOns == 1

\* A preset inside the declared ranges, and one a user edited by hand:
\* timbre and sustain 2.0.
GoodPresetFile ==
    [fname |-> 1, is_braids |-> TRUE, readable |-> TRUE,
     has_name |-> TRUE, name |-> "Good",
     has_engine_str |-> TRUE, engine_str |-> "CSAW",
     json |-> Json([attack |-> 0, decay |-> 0, sustain |-> One \div 2,
                    release |-> 0, f_decay |-> 0, f_release |-> 0])]

HotPresetFile ==
    [fname |-> 2, is_braids |-> TRUE, readable |-> TRUE,
     has_name |-> TRUE, name |-> "Hot",
     has_engine_str |-> FALSE, engine_str |-> "",
     json |-> Json([engine |-> 3 * One, timbre |-> 2 * One,
                    attack |-> 0, decay |-> 0, sustain |-> 2 * One,
                    release |-> 0, f_decay |-> 0, f_release |-> 0,
                    octave_transpose |-> 7 * One])]

Init == v2_create_instance(<<GoodPresetFile, HotPresetFile>>) /\ HistInit

SetNamedParam ==
    \E key \in {"sustain", "gain"}, f \in {-One, 2 * One} :
        v2_set_param(key, NumVal(f)) /\ UNCHANGED history

SetEngineParam ==
    \E val \in {StrVal("FM"), NumVal(-One), NumVal(46 * One + One \div 2),
                NumVal(50 * One)} :
        v2_set_param("engine", val) /\ UNCHANGED history

SetStateParam ==
    \E r \in {[preset |-> One], [preset |-> 5 * One, sustain |-> 3 * One]} :
        v2_set_param("state", JsonVal(r)) /\ UNCHANGED history

SelectPreset ==
    \E idx \in {-1, 0, 1, 2} :
        v2_set_param("preset", NumVal(idx * One)) /\ UNCHANGED history

ModWheel ==
    \E cc \in {1, 7}, data2 \in {0, 127, 255} :
        v2_on_midi(176, cc, data2) /\ UNCHANGED history

Bend ==
    v2_on_midi(224, 127, 127) /\ UNCHANGED history

KeyOn ==
    /\ voice_counter < MaxKeyOns
    /\ v2_on_midi(144, 60, 100)
    /\ UNCHANGED history

KeyOff ==
    v2_on_midi(128, 60, 0) /\ UNCHANGED history

Render ==
    \E frames \in {0, 128} : v2_render_block(frames) /\ UNCHANGED history

Next ==
    \/ SetNamedParam
    \/ SetEngineParam
    \/ SetStateParam
    \/ SelectPreset
    \/ ModWheel
    \/ Bend
    \/ KeyOn
    \/ KeyOff
    \/ Render

Spec == Init /\ [][Next]_vars

(* ------------------------- properties: voice allocator ---------------- *)

AllActive == \A i \in Voices : voices[i].active # 0

\* C2: no note-on is dropped.  Whenever a step is the handling of a note-on
\* (status 0x90, velocity v > 0) of raw note r, in any state, the voice
\* find_free_voice chooses is afterwards active and gated, holds the note
\* clamp(r + 12 * octave_transpose, 0, 127) and the velocity v, and both its
\* envelopes are in ATTACK.
C2_NoteOnNeverDropped ==
    [][\A n \in 0 .. (MaxNoteOns - 1) :
          v2_on_midi(144, RawNoteAt(n), VelocityAt(n)) =>
              LET vi == find_free_voice(voices)
                  t == RawNoteAt(n) + 12 * octave_transpose
                  note == IF t < 0 THEN 0 ELSE IF t > 127 THEN 127 ELSE t
              IN  /\ voices'[vi].active = 1
                  /\ voices'[vi].gate = 1
                  /\ voices'[vi].note = note
                  /\ voices'[vi].velocity = VelocityAt(n)
                  /\ voices'[vi].amp_env.stage = ATTACK
                  /\ voices'[vi].filt_env.stage = ATTACK]_vars

\* A note-on that found all four voices busy has just been handled, and a
\* transposed note above 127 was clamped: the stolen voice sounds note 127.
C2_Witness ==
    /\ AllActive
    /\ voice_counter > MAX_VOICES
    /\ octave_transpose = 1
    /\ \E i \in Voices :
          /\ voices[i].age = voice_counter
          /\ voices[i].gate = 1
          /\ voices[i].note = 127
          /\ voices[i].velocity = VelocityAt(voice_counter - 1)
          /\ voices[i].amp_env.stage = ATTACK
          /\ voices[i].filt_env.stage = ATTACK

C4_StealLeastRecentlyTriggered ==
    /\ [][\A n \in 0 .. (MaxNoteOns - 1) :
            (AllActive /\ v2_on_midi(144, RawNoteAt(n), VelocityAt(n))) =>
                LET lrt == Head(trig_order)
                    t == RawNoteAt(n) + 12 * octave_transpose
                    note == IF t < 0 THEN 0 ELSE IF t > 127 THEN 127 ELSE t
                IN  /\ Len(trig_order) = MAX_VOICES
                    /\ voices'[lrt] # voices[lrt]
                    /\ voices'[lrt].note = note
                    /\ \A o \in Voices \ {lrt} :
                          /\ voices'[o].note = voices[o].note
                          /\ voices'[o].velocity = voices[o].velocity
                          /\ voices'[o].gate = voices[o].gate
                          /\ voices'[o].active = voices[o].active
                          /\ voices'[o].age = voices[o].age]_vars
    /\ [](( /\ fresh_ons # Poisoned
            /\ Len(fresh_ons) = MAX_VOICES + 1
            /\ \A a, b \in 1 .. (MAX_VOICES + 1) :
                  a # b => fresh_ons[a].note # fresh_ons[b].note )
           => voices[fresh_ons[1].v].note = fresh_ons[MAX_VOICES + 1].note)

\* Five distinct notes were triggered on the fresh instance without a render.
C4_Witness ==
    /\ fresh_ons # Poisoned
    /\ Len(fresh_ons) = MAX_VOICES + 1
    /\ \A a, b \in 1 .. (MAX_VOICES + 1) :
          a # b => fresh_ons[a].note # fresh_ons[b].note
    /\ voices[fresh_ons[1].v].note = fresh_ons[MAX_VOICES + 1].note
    /\ voices[fresh_ons[1].v].age = MAX_VOICES + 1

\* C5: find_voice_for_note(n) is -1 exactly when no active voice holds note n;
\* it never names an inactive voice or one with another note; and when an
\* active voice with note n is gated it names a gated one, wherever a
\* releasing voice with the same note sits.
C5_FindVoiceForNote ==
    \A n \in 0 .. 127 :
        LET vi == find_voice_for_note(voices, n)
            match == {i \in Voices : voices[i].active # 0 /\ voices[i].note = n}
            gated == {i \in match : voices[i].gate # 0}
        IN  /\ vi = -1 <=> match = {}
            /\ vi # -1 => vi \in match
            /\ gated # {} => vi \in gated

\* One note sounds on three voices: a releasing one below a gated one, and
\* a releasing one above it.
C5_Witness ==
    \E lo, mid, hi \in Voices :
        /\ lo < mid /\ mid < hi
        /\ \A i \in {lo, mid, hi} : voices[i].active # 0 /\ voices[i].note = 127
        /\ voices[lo].gate = 0 /\ voices[mid].gate # 0 /\ voices[hi].gate = 0
        /\ find_voice_for_note(voices, 127) = mid

(* ---------------------------- properties: notes ----------------------- *)

\* C6: no stuck notes.  Once every note-on of a raw note has been answered
\* by a note-off (0x80, or 0x90 with velocity 0) of the same raw note, no
\* voice is gated, whatever set_param calls came in between.
C6_NoStuckNotes ==
    held = {} => \A i \in Voices : voices[i].gate = 0

C1_ParamsInRange ==
    \A k \in 1 .. Len(g_shadow_params) :
        LET d == g_shadow_params[k]
        IN  d.min_val <= params[d.index] /\ params[d.index] <= d.max_val

(* --------------------------- properties: renderer --------------------- *)

\* C8: a render clears a voice's active flag exactly when the voice is ungated
\* and its amplitude envelope has reached IDLE in that render; a gated voice
\* stays active; an ungated active voice whose envelope has not reached IDLE
\* stays active and is mixed into the whole block.
C8_DeactivatedWhenIdleUngated ==
    [][v2_render_block(128) =>
          \A i \in Voices :
              voices[i].active # 0 =>
                  /\ voices'[i].active = 0
                        <=> (voices[i].gate = 0 /\ voices'[i].amp_env.stage = IDLE)
                  /\ voices[i].gate # 0 => voices'[i].active # 0
                  /\ (voices[i].gate = 0 /\ voices'[i].amp_env.stage # IDLE)
                        => (voices'[i].active # 0 /\ mixed'[i] = 128)]_vars

\* A block in which the first voice ran out part-way (after an earlier block
\* of its release tail) while the second voice, still held, was mixed into
\* all of it.
C8_Witness ==
    /\ params[PARAM_RELEASE] = One \div 10
    /\ voices[0].age = 1
    /\ voices[0].active = 0
    /\ voices[0].amp_env.stage = IDLE
    /\ mixed[0] > 0 /\ mixed[0] < 128
    /\ voices[1].active # 0
    /\ voices[1].gate # 0
    /\ mixed[1] = 128

(* --------------------------- properties: envelopes -------------------- *)

\* C9: in every reachable state the level of every voice's amplitude and
\* filter envelope is within [0, 1].
C9_LevelsInRange ==
    \A i \in Voices :
        /\ 0 <= voices[i].amp_env.level /\ voices[i].amp_env.level <= LevelOne
        /\ 0 <= voices[i].filt_env.level /\ voices[i].filt_env.level <= LevelOne

\* The stage changes of the envelope's own transition table.
TableChange(a, b) ==
    <<a, b>> \in {<<IDLE, ATTACK>>, <<ATTACK, DECAY>>, <<DECAY, SUSTAIN>>,
                  <<SUSTAIN, SUSTAIN>>, <<RELEASE, IDLE>>}

\* A change into RELEASE from a stage other than IDLE, by a note-off.
GateOffChange(a, b) ==
    /\ a # IDLE /\ b = RELEASE
    /\ v2_on_midi(128, EnvKey, 0)

\* C10 as stated: every change of an envelope's stage is idle->attack,
\* attack->decay, decay->sustain, sustain->sustain, release->idle, or a
\* change into release from a non-idle stage on gate-off.
C10_StageChangesAsStated ==
    [][\A i \in Voices :
          \A a \in {<<voices[i].amp_env.stage, voices'[i].amp_env.stage>>,
                    <<voices[i].filt_env.stage, voices'[i].filt_env.stage>>} :
              a[1] # a[2] => TableChange(a[1], a[2]) \/ GateOffChange(a[1], a[2])]_vars

\* C10, amended: every change of an envelope's stage is one of the above, or
\* a change into attack from any stage by a note-on, or a change into idle
\* from any stage by the selection of a preset.
C10_StageChanges ==
    [][\A i \in Voices :
          \A a \in {<<voices[i].amp_env.stage, voices'[i].amp_env.stage>>,
                    <<voices[i].filt_env.stage, voices'[i].filt_env.stage>>} :
              a[1] # a[2] =>
                  \/ TableChange(a[1], a[2])
                  \/ GateOffChange(a[1], a[2])
                  \/ (a[2] = ATTACK /\ v2_on_midi(144, EnvKey, 100))
                  \/ (a[2] = IDLE /\ v2_set_param("preset", NumVal(0)))]_vars

\* A note-on has re-triggered a free voice whose filter envelope was still
\* releasing: it is in ATTACK above level 0, next to a fresh amplitude
\* envelope.
C10_Witness ==
    \E i \in Voices :
        /\ voices[i].age = 2
        /\ voices[i].gate # 0
        /\ voices[i].amp_env.stage = ATTACK
        /\ voices[i].amp_env.level = 0
        /\ voices[i].filt_env.stage = ATTACK
        /\ voices[i].filt_env.level > 0

(* ----------------------- properties: the envelope's course ------------- *)

\* The two envelopes of voice i.
EnvsOf(vs, i) == <<vs[i].amp_env, vs[i].filt_env>>

\* C11: an envelope that received gate_on() and is stepped with process(),
\* with no gate_off and its parameters in [0, 1], reaches SUSTAIN; a step
\* takes ATTACK to ATTACK or DECAY (never past DECAY), DECAY to DECAY or
\* SUSTAIN, SUSTAIN to SUSTAIN, and a gated voice's envelopes are never in
\* RELEASE or IDLE.
C11_AttackDecaySustain ==
    /\ \A i \in Voices : \A k \in 1 .. 2 :
          (voices[i].gate # 0 /\ EnvsOf(voices, i)[k].stage = ATTACK)
              ~> (EnvsOf(voices, i)[k].stage = SUSTAIN)
    /\ [][v2_render_block(1) =>
            \A i \in Voices : \A k \in 1 .. 2 :
                LET a == EnvsOf(voices, i)[k]
                    b == EnvsOf(voices', i)[k]
                IN  voices[i].active # 0 =>
                        /\ a.stage = ATTACK => b.stage \in {ATTACK, DECAY}
                        /\ (a.stage = ATTACK /\ b.stage = DECAY) => b.level = LevelOne
                        /\ a.stage = DECAY => b.stage \in {DECAY, SUSTAIN}
                        /\ a.stage = SUSTAIN => b.stage = SUSTAIN
                        /\ b.stage = SUSTAIN => b.level = b.sustain_level]_vars
    /\ [](\A i \in Voices : \A k \in 1 .. 2 :
             voices[i].gate # 0 =>
                 EnvsOf(voices, i)[k].stage \in {ATTACK, DECAY, SUSTAIN})

\* The first voice was stolen out of its sustain by the fifth note-on and
\* has run through its 5 ms attack and decay into sustain again.
C11_Witness ==
    /\ params[PARAM_ATTACK] = One \div 50
    /\ params[PARAM_DECAY] = One \div 50
    /\ voices[0].age = MAX_VOICES + 1
    /\ voices[0].gate # 0
    /\ voices[0].amp_env.stage = SUSTAIN
    /\ voices[0].amp_env.level = voices[0].amp_env.sustain_level
    /\ voices[0].amp_env.level > 0
    /\ mixed[0] = 1

\* The parameter that holds the sustain level of envelope k of a voice.
SustainParamOf(k) == IF k = 1 THEN PARAM_SUSTAIN ELSE PARAM_F_SUSTAIN

\* C12 as stated: across the process() steps of a render block, an envelope
\* in SUSTAIN on which gate_off() is not called stays in SUSTAIN and keeps
\* its level.
C12_SustainKeepsLevelAsStated ==
    [][v2_render_block(1) =>
          \A i \in Voices : \A k \in 1 .. 2 :
              LET a == EnvsOf(voices, i)[k]
                  b == EnvsOf(voices', i)[k]
              IN  (voices[i].active # 0 /\ a.stage = SUSTAIN) =>
                      (b.stage = SUSTAIN /\ b.level = a.level)]_vars

\* C12, amended: across the process() steps of a render block, an envelope
\* in SUSTAIN on which gate_off() is not called stays in SUSTAIN, at the
\* sustain level of the Parameter Store; its level is the level it had
\* unless the sustain parameter was changed since the block before.
C12_SustainKeepsLevel ==
    [][v2_render_block(1) =>
          \A i \in Voices : \A k \in 1 .. 2 :
              LET a == EnvsOf(voices, i)[k]
                  b == EnvsOf(voices', i)[k]
                  s == LevelOf(params[SustainParamOf(k)])
              IN  (voices[i].active # 0 /\ a.stage = SUSTAIN) =>
                      /\ b.stage = SUSTAIN
                      /\ b.level = s
                      /\ a.sustain_level = s => b.level = a.level]_vars

\* The first voice sustained at a quarter; the sustain parameter was turned
\* up to full, and the next block took the voice's level there.
C12_Witness ==
    /\ voices[0].age = 1
    /\ voices[0].gate # 0
    /\ voices[0].amp_env.stage = SUSTAIN
    /\ voices[0].amp_env.level = LevelOne
    /\ voices[0].filt_env.stage = SUSTAIN
    /\ voices[0].filt_env.level = LevelOf(One \div 2)
    /\ params[PARAM_SUSTAIN] = One
    /\ voices[1].active # 0
    /\ voices[1].amp_env.stage = DECAY
    /\ mixed[0] = 1

(* --------------------------- properties: scenario A ------------------- *)

\* An instance without presets, untouched but for a note-on of note 60 at
\* velocity 100, which was the latest call.
ScenarioA ==
    /\ preset_count = 0
    /\ params = DefaultParams
    /\ octave_transpose = 0
    /\ voice_counter = 1
    /\ last_call = [op |-> "on_midi", key |-> "", val |-> 144]
    /\ voices[0].active # 0 /\ voices[0].gate # 0
    /\ voices[0].note = 60 /\ voices[0].velocity = 100
    /\ voices[0].amp_env.stage = ATTACK /\ voices[0].amp_env.level = 0

\* Oscillator samples at the ends and in the middle of the int16_t range.
OscSamples == {-32768, -1, 0, 32767}

\* Every frame of the block is inside the 16-bit range.
BlockInRange(frames) ==
    \A f \in 0 .. (frames - 1) : \A osc \in OscSamples :
        out_sample(params, voices, frames, f, osc) \in -32768 .. 32767

\* C13 as stated: with the compiled-in defaults, after a note-on (60, 100)
\* followed at once by the render of a 128-frame block, the voice's
\* amplitude envelope is in ATTACK or DECAY and every output sample is in
\* [-32768, 32767].
C13_ScenarioAAsStated ==
    [][(ScenarioA /\ v2_render_block(128)) =>
          /\ voices'[0].amp_env.stage \in {ATTACK, DECAY}
          /\ BlockInRange(128)]_vars

\* C13, amended: after that block the voice's amplitude envelope is in
\* SUSTAIN at full level (the 1 ms attack ends in the block, and the decay
\* toward a sustain of 1.0 ends with its first step), and every output
\* sample is in [-32768, 32767].
C13_ScenarioA ==
    [][(ScenarioA /\ v2_render_block(128)) =>
          /\ voices'[0].amp_env.stage = SUSTAIN
          /\ voices'[0].amp_env.level = LevelOne
          /\ mixed'[0] = 128
          /\ BlockInRange(128)]_vars

\* The block after the note-on has been rendered: the amplitude envelope
\* sustains, the filter envelope is still in the block's share of its decay.
C13_Witness ==
    /\ preset_count = 0
    /\ params = DefaultParams
    /\ last_call = [op |-> "render_block", key |-> "", val |-> 128]
    /\ voices[0].gate # 0
    /\ voices[0].note = 60 /\ voices[0].velocity = 100
    /\ voices[0].amp_env.stage = SUSTAIN
    /\ voices[0].amp_env.level = LevelOne
    /\ voices[0].filt_env.stage = DECAY
    /\ voices[0].filt_env.level >= LevelOne - 128 * voices[0].filt_env.decay_rate
    /\ mixed[0] = 128

(* ----------------------- properties: presets and the store ------------ *)

\* C14: applying a preset with an index i < 0 or i >= preset_count, by
\* v2_apply_preset or by set_param("preset", i), leaves the Parameter Store,
\* octave_transpose, current_preset, preset_name and every voice unchanged.
C14_PresetOutOfRange ==
    /\ [](LET st == [params |-> params, octave_transpose |-> octave_transpose,
                     preset_name |-> preset_name]
          IN  \A idx \in {-2147483647, -1, preset_count, preset_count + 1,
                           MAX_PRESETS, 2147483647} :
                  v2_apply_preset(st, presets, idx) = st)
    /\ [][\A idx \in -1 .. 3 :
            ( /\ idx < 0 \/ idx >= preset_count
              /\ v2_set_param("preset", IntVal(idx)) )
                => UNCHANGED <<params, octave_transpose, current_preset,
                               preset_name, voices>>]_vars

\* set_param("preset", "3") has just come in on a bank of three presets,
\* with a held voice sounding and the timbre edited away from the preset's.
C14_Witness ==
    /\ last_call = [op |-> "set_param", key |-> "preset", val |-> 3]
    /\ preset_count = 3
    /\ current_preset = 1
    /\ preset_name = "Edge"
    /\ params[PARAM_TIMBRE] = 12345
    /\ octave_transpose = -3
    /\ voices[0].active # 0 /\ voices[0].gate # 0
    /\ voices[0].amp_env.stage = SUSTAIN

\* C15: state round trip.  In every reachable state, writing back with
\* set_param("state", ...) what get_param("state") returned leaves all 16
\* parameters, octave_transpose and current_preset as they were.
C15_StateRoundTrip ==
    [][LET saved == v2_get_param("state", BufLen)
       IN  ( /\ last_call'.op = "save_restore"
             /\ v2_set_param("state", [str |-> saved.text, f |-> 0, i |-> 0,
                                        json |-> saved.json]) )
               => /\ params' = params
                  /\ octave_transpose' = octave_transpose
                  /\ current_preset' = current_preset]_vars

\* C16: in every reachable state the instance's octave_transpose and the
\* octave_transpose of every loaded preset are integers in [-3, 3].
C16_OctaveClamped ==
    /\ octave_transpose \in -3 .. 3
    /\ \A k \in 1 .. Len(presets) : presets[k].octave_transpose \in -3 .. 3

\* set_param("octave_transpose", ...) with a number beyond the int range
\* has just come in, on a bank whose files asked for -7.5 and 7.
C16_Witness ==
    /\ last_call = [op |-> "set_param", key |-> "octave_transpose",
                    val |-> 2147483647]
    /\ octave_transpose = 3
    /\ preset_count = 3
    /\ presets[2].octave_transpose = -3
    /\ presets[3].octave_transpose = 3

\* C17: set_param with a key that is neither "state", "octave_transpose",
\* "preset", "engine" nor one of the 16 named keys leaves the whole instance
\* as it was, and get_param with a key it does not recognise returns -1.
C17_UnknownKey ==
    /\ [][(last_call'.op = "set_param" /\ last_call'.key = "gain")
             => UNCHANGED inst]_vars
    /\ [](\A key \in {"gain", "", "Timbre", "presets", "state2"} :
             v2_get_param(key, BufLen).ret = -1)

\* set_param("gain", "0.12345") has just come in on an instance whose
\* timbre was set before, and get_param("gain") answers -1.
C17_Witness ==
    /\ last_call = [op |-> "set_param", key |-> "gain", val |-> 12345]
    /\ params[PARAM_TIMBRE] = 12345
    /\ v2_get_param("gain", BufLen).ret = -1
    /\ v2_get_param("timbre", BufLen).ret = 6

\* C18: set_param on a named parameter key (or on "engine" with a number)
\* with numeric input x stores exactly x clamped to the bounds declared for
\* that parameter, and leaves every other parameter, octave_transpose, the
\* preset selection and the voices as they were.
C18_SetStoresClamped ==
    [][\A k \in DOMAIN g_shadow_params :
         \A x \in {-One, 2 * One, 46 * One + One \div 2, 50 * One} :
            LET d == g_shadow_params[k]
            IN  v2_set_param(d.key, NumVal(x))
                   => /\ params' = [params EXCEPT ![d.index] =
                                        Clamp(x, d.min_val, d.max_val)]
                      /\ UNCHANGED <<octave_transpose, current_preset,
                                     voices>>]_vars

\* Every voice is inactive and ungated, both envelopes IDLE at level 0.
AllSilenced(vs) ==
    \A i \in Voices :
        /\ vs[i].active = 0
        /\ vs[i].gate = 0
        /\ \A k \in 1 .. 2 :
              EnvsOf(vs, i)[k].stage = IDLE /\ EnvsOf(vs, i)[k].level = 0

\* C19: after set_param("preset", i) with a valid index i every voice is
\* inactive and ungated with both envelopes IDLE at level 0, the Parameter
\* Store and octave_transpose equal preset i's snapshot and current_preset
\* is i; from then on render_block mixes no voice and every output sample
\* is 0, until a note-on arrives.
C19_PresetSelectSilences ==
    /\ [][( /\ last_call'.op = "set_param"
            /\ last_call'.key = "preset"
            /\ last_call'.val \in 0 .. (preset_count - 1) )
             => /\ AllSilenced(voices')
                /\ params' = presets[last_call'.val + 1].params
                /\ octave_transpose' = presets[last_call'.val + 1].octave_transpose
                /\ current_preset' = last_call'.val]_vars
    /\ [][( /\ AllSilenced(voices)
            /\ ~(last_call'.op = "on_midi" /\ last_call'.val = 144) )
             => /\ AllSilenced(voices')
                /\ last_call'.op = "render_block"
                      => mixed' = [i \in Voices |-> 0]]_vars
    /\ [](AllSilenced(voices)
             => \A f \in {0, 127}, osc \in OscSamples :
                    out_sample(params, voices, 128, f, osc) = 0)

\* set_param("preset", "2") has just come in after a key was struck three
\* octaves down: the voice is cut and the preset "High" is in the store.
C19_Witness ==
    /\ last_call = [op |-> "set_param", key |-> "preset", val |-> 2]
    /\ voice_counter = 1
    /\ voices[0].note = 24
    /\ AllSilenced(voices)
    /\ current_preset = 2
    /\ preset_name = "High"
    /\ params = presets[3].params
    /\ octave_transpose = 3

\* C20: a preset file that omits a field gets that field's default, and
\* the defaults of load_braids_preset are those of v2_create_instance: the
\* preset of a file with no parameter field holds the create-time store and
\* an octave_transpose of 0, a file without "sustain" gets a sustain of
\* 1.0, and applying the former gives the store of a fresh instance that
\* has no presets.
C20_PresetDefaults ==
    /\ [](\A k \in DOMAIN PresetFieldDefaults :
             PresetFieldDefaults[k].dflt
                = DefaultParams[PresetFieldDefaults[k].index])
    /\ [](preset_count = 3
             => /\ presets[1].params = DefaultParams
                /\ presets[1].octave_transpose = 0
                /\ presets[2].params[PARAM_SUSTAIN] = DefaultParams[PARAM_SUSTAIN]
                /\ presets[2].params[PARAM_SUSTAIN] = One
                /\ \A i \in Params \ {PARAM_RELEASE} :
                      presets[3].params[i] = DefaultParams[i])
    /\ [][(last_call'.op = "set_param" /\ last_call'.key = "preset"
              /\ last_call'.val = 0 /\ preset_count = 3)
             => /\ params' = DefaultParams
                /\ octave_transpose' = 0]_vars
    /\ [][(preset_count = 0 /\ last_call = NoCall /\ last_call' # NoCall)
             => /\ params = DefaultParams
                /\ octave_transpose = 0]_vars

\* set_param("preset", "0") has just brought back the preset of the file
\* without fields, after a key was struck three octaves down under "Edge".
C20_Witness ==
    /\ last_call = [op |-> "set_param", key |-> "preset", val |-> 0]
    /\ preset_count = 3
    /\ preset_name = "Preset 0"
    /\ voice_counter = 1
    /\ voices[0].note = 24
    /\ params = DefaultParams
    /\ octave_transpose = 0
    /\ presets[2].params[PARAM_SUSTAIN] = One
    /\ presets[2].params[PARAM_TIMBRE] = One \div 4

(* ----------------------------- preset loading ------------------------- *)

\* Bound: the entries of the largest presets directory.
MaxDirLen == 65

\* The n-th file name in lexicographic order, as a preset file that names
\* itself; ok tells whether the file can be opened and read.
LoadFile(n, ok) ==
    [fname |-> n, is_braids |-> TRUE, readable |-> ok,
     has_name |-> TRUE, name |-> "P" \o ToString(n),
     has_engine_str |-> FALSE, engine_str |-> "",
     json |-> EmptyJson]

\* readdir hands the entries back in no particular order: here a short
\* directory with an unreadable file and a file of another extension, full
\* directories in descending order, and an ascending one whose first file
\* cannot be read.
LoadDirs ==
    << <<>>,
       << LoadFile(3, TRUE), LoadFile(1, FALSE),
          [LoadFile(0, TRUE) EXCEPT !.is_braids = FALSE], LoadFile(2, TRUE) >>,
       [k \in 1 .. MAX_PRESETS |-> LoadFile(MAX_PRESETS + 1 - k, TRUE)],
       [k \in 1 .. MaxDirLen |-> LoadFile(MaxDirLen + 1 - k, TRUE)],
       [k \in 1 .. MaxDirLen |-> LoadFile(k, k # 1)] >>

\* The host creates the instance over one of the directories.
InitLoad ==
    \E k \in DOMAIN LoadDirs :
        /\ v2_create_instance(LoadDirs[k])
        /\ trig_order = <<>>
        /\ fresh_ons = <<>>
        /\ held = {}
        /\ last_call = [op |-> "create_instance", key |-> "", val |-> k]

LoadSelectPreset ==
    \E idx \in {-1, 0, 1, 2, MAX_PRESETS - 2, MAX_PRESETS - 1, MAX_PRESETS} :
        v2_set_param("preset", IntVal(idx)) /\ Called("set_param", "preset", idx)

LoadSetOctave ==
    \E i \in {-1, 1} :
        v2_set_param("octave_transpose", IntVal(i))
            /\ Called("set_param", "octave_transpose", i)

LoadSetState ==
    \E r \in {[preset |-> One], [preset |-> MAX_PRESETS * One],
               [preset |-> -One, timbre |-> One]} :
        v2_set_param("state", JsonVal(r)) /\ Called("set_param", "state", 0)

LoadRender ==
    v2_render_block(BRAIDS_BLOCK_SIZE) /\ Called("render_block", "", BRAIDS_BLOCK_SIZE)

NextLoad ==
    \/ LoadSelectPreset
    \/ LoadSetOctave
    \/ LoadSetState
    \/ LoadRender

SpecLoad == InitLoad /\ [][NextLoad]_vars

\* The names of the files a directory's bank is said to hold: its readable
\* .braids files in ascending file-name order, the first MAX_PRESETS of them.
NamesInOrder(dir) ==
    LET ok(f) == f.is_braids /\ f.readable
        sorted == SortSeq(SelectSeq(dir, ok), preset_name_cmp)
        n == IF Len(sorted) > MAX_PRESETS THEN MAX_PRESETS ELSE Len(sorted)
    IN  [k \in 1 .. n |-> sorted[k].name]

\* C21: at creation a file that cannot be loaded is skipped, every other
\* loadable .braids file is loaded up to the capacity of 64, preset_count
\* never exceeds 64, and the bank holds the files in ascending file-name
\* order, the lexicographically first 64 when there are more.
C21_PresetLoading ==
    /\ [](preset_count <= MAX_PRESETS /\ preset_count = Len(presets))
    /\ [](last_call.op = "create_instance"
             => [k \in 1 .. Len(presets) |-> presets[k].name]
                    = NamesInOrder(LoadDirs[last_call.val]))

(* ------------------------------ pitch and bend ------------------------ *)

\* Bound: the note-ons of one behaviour of SpecPitch.
MaxPitchOns == 2

\* The two data bytes of the pitch-bend messages the player sends: wheel
\* fully down, centred, fully up.
BendBytes == {<<0, 0>>, <<0, 64>>, <<127, 127>>}

\* A patch with immediate envelopes.
InitPitch ==
    v2_create_instance(<<AdsrPresetFile(0, 0)>>) /\ HistInit

\* An octave higher with every key.
PitchKeyOn ==
    /\ voice_counter < MaxPitchOns
    /\ v2_on_midi(144, 60 + 12 * voice_counter, 100)
    /\ Called("on_midi", "", 144)

PitchKeyOff ==
    /\ v2_on_midi(128, 60, 0)
    /\ Called("on_midi", "", 128)

\* The bend is recorded as the 14-bit value less its centre.
PitchBendMsg ==
    \E d \in BendBytes :
        /\ v2_on_midi(224, d[1], d[2])
        /\ Called("on_midi", "bend", BitOr(d[2] * 128, d[1]) - 8192)

PitchModWheel ==
    \E data2 \in {0, 127} :
        v2_on_midi(176, 1, data2) /\ Called("on_midi", "", 176)

PitchRender ==
    v2_render_block(128) /\ Called("render_block", "", 128)

NextPitch ==
    \/ PitchKeyOn
    \/ PitchKeyOff
    \/ PitchBendMsg
    \/ PitchModWheel
    \/ PitchRender

SpecPitch == InitPitch /\ [][NextPitch]_vars

\* C22: in a render block the pitch set on each active voice's oscillator
\* is note * 128 + 1724, plus the offset of the most recent pitch bend
\* (bend / 8192 * 2 * 128), plus FM * 1536 when FM > 0.001: a bend received
\* right before the block is in effect for that block.
C22_BendInEffect ==
    [][(last_call.op = "on_midi" /\ last_call.key = "bend"
            /\ last_call'.op = "render_block")
         => \A i \in Voices :
               voices[i].active # 0
                  => voices'[i].pitch
                        = voices[i].note * 128 + 1724
                            + TruncDiv(last_call.val * 2 * 128, 8192)
                            + (IF params[PARAM_FM] > One \div 1000
                               THEN (params[PARAM_FM] * 1536) \div One ELSE 0)]_vars

(* ------------------------------ block lengths ------------------------- *)

\* Bound: the note-ons of one behaviour of SpecBlocks.
MaxBlockOns == 2

\* The frame counts the host asks for: nothing, one frame, a sub-block and
\* one frame more, the usual block.
FrameCounts == {0, 1, BRAIDS_BLOCK_SIZE + 1, 128}

InitBlocks ==
    v2_create_instance(<<AdsrPresetFile(0, 0)>>) /\ HistInit

BlocksKeyOn ==
    /\ voice_counter < MaxBlockOns
    /\ v2_on_midi(144, 60 + 12 * voice_counter, 100)
    /\ Called("on_midi", "", 144)

\* The first key is lifted.
BlocksKeyOff ==
    /\ v2_on_midi(128, 60, 0)
    /\ Called("on_midi", "", 128)

BlocksRender ==
    \E frames \in FrameCounts :
        v2_render_block(frames) /\ Called("render_block", "", frames)

NextBlocks ==
    \/ BlocksKeyOn
    \/ BlocksKeyOff
    \/ BlocksRender

SpecBlocks == InitBlocks /\ [][NextBlocks]_vars

RECURSIVE SumSeq(_)
SumSeq(q) == IF q = <<>> THEN 0 ELSE Head(q) + SumSeq(Tail(q))

\* C23: for every frame count F >= 0 the per-voice loop ends; a voice that
\* stays active goes through sub-blocks of at most 24 samples that sum to F
\* and is mixed into each of the F frames once; a voice that is deactivated
\* at frame k is mixed into the frames before k only; and the voices after
\* it in the array are still rendered for all F frames.
C23_RenderCoversBlock ==
    /\ [](\A F \in FrameCounts :
             /\ \A k \in DOMAIN block_sizes(0, F) :
                   block_sizes(0, F)[k] \in 1 .. BRAIDS_BLOCK_SIZE
             /\ SumSeq(block_sizes(0, F)) = F)
    /\ [][last_call'.op = "render_block"
            => \A i \in Voices :
                  LET F == last_call'.val
                      e == apply_params_to_voice(params, voices[i]).amp_env
                      k == mixed'[i]
                  IN  /\ voices[i].active = 0
                         => k = 0 /\ voices'[i] = voices[i]
                      /\ (voices[i].active # 0 /\ voices'[i].active # 0)
                         => /\ k = F
                            /\ voices'[i].amp_env = process_n(e, F)
                      /\ (voices[i].active # 0 /\ voices'[i].active = 0)
                         => /\ k < F
                            /\ voices[i].gate = 0
                            /\ ~is_active(process_n(e, k + 1))
                            /\ k > 0 => is_active(process_n(e, k))]_vars

\* A block of 128 frames has just been rendered in which the released
\* first voice ended part-way and the second voice, after it in the array,
\* was mixed into every frame.
C23_Witness ==
    /\ last_call = [op |-> "render_block", key |-> "", val |-> 128]
    /\ voices[0].active = 0
    /\ mixed[0] \in 1 .. 127
    /\ voices[1].active # 0
    /\ mixed[1] = 128

(* --------------------------- live parameter changes ------------------- *)

\* Bound: the note-ons of one behaviour of SpecLive.
MaxLiveOns == 1

\* The envelope times the player dials in: 1 ms and 5 ms.
LiveTimes == {0, One \div 50}

InitLive ==
    v2_create_instance(<<AdsrPresetFile(0, 0)>>) /\ HistInit

\* The player turns the knobs while a voice sounds.
Sounding == \E i \in Voices : voices[i].active # 0

LiveKeyOn ==
    /\ voice_counter < MaxLiveOns
    /\ v2_on_midi(144, 60, 100)
    /\ Called("on_midi", "", 144)

LiveKeyOff ==
    /\ v2_on_midi(128, 60, 0)
    /\ Called("on_midi", "", 128)

LiveSetParam ==
    /\ Sounding
    /\ \E key \in {"release", "f_attack"}, t \in LiveTimes :
          v2_set_param(key, NumVal(t)) /\ Called("set_param", key, t)

LiveSetSustain ==
    /\ Sounding
    /\ \E t \in AdsrSustains :
          v2_set_param("sustain", NumVal(t)) /\ Called("set_param", "sustain", t)

LiveRestore ==
    /\ Sounding
    /\ v2_set_param("state", JsonVal([decay |-> One \div 50, f_sustain |-> One]))
    /\ Called("set_param", "state", 0)

LiveModWheel ==
    /\ Sounding
    /\ \E data2 \in {0, 127} :
          v2_on_midi(176, 1, data2) /\ Called("on_midi", "", 176)

LiveRender ==
    v2_render_block(128) /\ Called("render_block", "", 128)

NextLive ==
    \/ LiveKeyOn
    \/ LiveKeyOff
    \/ LiveSetParam
    \/ LiveSetSustain
    \/ LiveRestore
    \/ LiveModWheel
    \/ LiveRender

SpecLive == InitLive /\ [][NextLive]_vars

\* The rates and sustain level an envelope gets from the four parameters
\* a, d, s, r of the store ps.
DerivedFrom(e, ps, a, d, s, r) ==
    /\ e.attack_rate = time_to_rate(ps[a])
    /\ e.decay_rate = time_to_rate(ps[d])
    /\ e.sustain_level = LevelOf(ps[s])
    /\ e.release_rate = time_to_rate(ps[r])

\* C24: the render_block that follows a change to the Parameter Store
\* (set_param, a "state" restore, CC 1) re-applies the current store to
\* every active voice, those triggered before the change included: in that
\* block the envelope rates and sustain levels of each active voice are the
\* ones derived from the current store, its envelopes run with them, and
\* its pitch carries the current FM amount.
C24_LiveParameters ==
    [][last_call'.op = "render_block"
        => \A i \in Voices :
              voices[i].active # 0
                 => /\ DerivedFrom(voices'[i].amp_env, params, PARAM_ATTACK,
                                   PARAM_DECAY, PARAM_SUSTAIN, PARAM_RELEASE)
                    /\ DerivedFrom(voices'[i].filt_env, params, PARAM_F_ATTACK,
                                   PARAM_F_DECAY, PARAM_F_SUSTAIN, PARAM_F_RELEASE)
                    /\ voices'[i].active # 0
                          => /\ voices'[i].amp_env
                                  = process_n(set_params(voices[i].amp_env,
                                        params[PARAM_ATTACK], params[PARAM_DECAY],
                                        params[PARAM_SUSTAIN], params[PARAM_RELEASE]),
                                        128)
                             /\ voices'[i].filt_env
                                  = process_n(set_params(voices[i].filt_env,
                                        params[PARAM_F_ATTACK], params[PARAM_F_DECAY],
                                        params[PARAM_F_SUSTAIN], params[PARAM_F_RELEASE]),
                                        128)
                    /\ voices'[i].pitch
                          = note_to_pitch(voices[i].note)
                              + (IF params[PARAM_FM] > One \div 1000
                                 THEN (params[PARAM_FM] * 1536) \div One ELSE 0)]_vars

\* A block has been rendered for the one voice ever triggered, after the
\* release, the decay, the filter sustain and the FM amount were changed
\* under it: the voice carries the new settings, not the patch's.
C24_Witness ==
    /\ last_call = [op |-> "render_block", key |-> "", val |-> 128]
    /\ voice_counter = 1
    /\ voices[0].active # 0
    /\ params[PARAM_RELEASE] = One \div 50 /\ presets[1].params[PARAM_RELEASE] = 0
    /\ params[PARAM_DECAY] = One \div 50 /\ presets[1].params[PARAM_DECAY] = 0
    /\ params[PARAM_FM] = One
    /\ voices[0].amp_env.release_rate = time_to_rate(One \div 50)
    /\ voices[0].amp_env.release_rate # time_to_rate(0)
    /\ voices[0].amp_env.decay_rate = time_to_rate(One \div 50)
    /\ voices[0].filt_env.sustain_level = LevelOne
    /\ voices[0].pitch = note_to_pitch(60) + 1536

\* C25: render_block leaves the Parameter Store, octave_transpose, the
\* preset bank, current_preset, preset_name, voice_counter and every voice's
\* note, velocity, gate and age as they were; of the lifecycle fields it
\* changes only active, and only from 1 to 0.
C25_RenderReadOnly ==
    [][last_call'.op = "render_block"
        => /\ UNCHANGED <<params, octave_transpose, presets, preset_count,
                          current_preset, preset_name, voice_counter>>
           /\ \A i \in Voices :
                 /\ voices'[i].note = voices[i].note
                 /\ voices'[i].velocity = voices[i].velocity
                 /\ voices'[i].gate = voices[i].gate
                 /\ voices'[i].age = voices[i].age
                 /\ \/ voices'[i].active = voices[i].active
                    \/ voices[i].active = 1 /\ voices'[i].active = 0]_vars

\* A block has just been rendered in which the released voice was
\* deactivated after some frames, with the store edited away from the patch.
C25_Witness ==
    /\ last_call = [op |-> "render_block", key |-> "", val |-> 128]
    /\ voices[0].active = 0
    /\ mixed[0] \in 1 .. 127
    /\ voices[0].note = 60 /\ voices[0].velocity = 100
    /\ voices[0].gate = 0 /\ voices[0].age = 1
    /\ voice_counter = 1
    /\ params[PARAM_FM] = One
    /\ params # presets[1].params

(* ------------------------- properties: voice lifecycle ---------------- *)

\* C26: between API calls, for every voice: gate = 1 implies active = 1 and
\* an amplitude envelope in ATTACK, DECAY or SUSTAIN; active = 1 with
\* gate = 0 implies an amplitude envelope in RELEASE; active = 0 implies
\* gate = 0.
C26_GateActiveStage ==
    \A i \in Voices :
        /\ voices[i].gate # 0
              => /\ voices[i].active # 0
                 /\ voices[i].amp_env.stage \in {ATTACK, DECAY, SUSTAIN}
        /\ (voices[i].active # 0 /\ voices[i].gate = 0)
              => voices[i].amp_env.stage = RELEASE
        /\ voices[i].active = 0 => voices[i].gate = 0

\* After a voice was stolen: one voice freshly struck, one sustaining, one
\* releasing, one silent.
C26_Witness ==
    /\ voice_counter > MAX_VOICES
    /\ \E i \in Voices :
          voices[i].gate # 0 /\ voices[i].amp_env.stage = ATTACK
    /\ \E i \in Voices :
          voices[i].gate # 0 /\ voices[i].amp_env.stage = SUSTAIN
    /\ \E i \in Voices :
          /\ voices[i].active # 0 /\ voices[i].gate = 0
          /\ voices[i].amp_env.stage = RELEASE
    /\ \E i \in Voices :
          voices[i].active = 0 /\ voices[i].age > 0

UngatesAtMostOne(raw) ==
    LET note == Clamp(raw + octave_transpose * 12, 0, 127)
        gated == {i \in Voices : /\ voices[i].active # 0
                                 /\ voices[i].note = note
                                 /\ voices[i].gate # 0}
        ungated == {i \in Voices : voices[i].gate # 0 /\ voices'[i].gate = 0}
    IN  /\ Cardinality(ungated) <= 1
        /\ gated = {} => ungated = {}
        /\ gated # {} => ungated = {CHOOSE i \in gated : \A j \in gated : i <= j}
        /\ \A i \in Voices :
              /\ i \notin ungated => voices'[i].gate = voices[i].gate
              /\ voices'[i].active = voices[i].active
              /\ voices'[i].note = voices[i].note
              /\ voices'[i].velocity = voices[i].velocity
              /\ voices'[i].age = voices[i].age
        /\ params' = params

\* C28: a note-off (0x80, or 0x90 with velocity 0) ungates at most one
\* voice: of several active voices holding the transposed note only the
\* lowest-indexed gated one, the others staying gated; and it changes no
\* voice's active flag, note, velocity or age, nor the Parameter Store.
C28_NoteOffUngatesOne ==
    [][\A n \in 0 .. (MaxNoteOns - 1) :
         /\ v2_on_midi(128, RawNoteAt(n), 0) => UngatesAtMostOne(RawNoteAt(n))
         /\ v2_on_midi(144, RawNoteAt(n), 0) => UngatesAtMostOne(RawNoteAt(n))]_vars

\* Two voices hold the top note; the lower-indexed one was released at full
\* sustain after the block that brought both to sustain, the other is still
\* gated.
C28_Witness ==
    \E lo, hi \in Voices :
        /\ lo < hi
        /\ voices[lo].active # 0 /\ voices[hi].active # 0
        /\ voices[lo].note = 127 /\ voices[hi].note = 127
        /\ voices[lo].gate = 0
        /\ voices[lo].amp_env.stage = RELEASE
        /\ voices[lo].amp_env.level = LevelOne
        /\ voices[hi].gate # 0
        /\ voices[hi].amp_env.stage = SUSTAIN

(* ------------------------ properties: preset selection ---------------- *)

\* C29: in every reachable state 0 <= current_preset < max(1, preset_count),
\* and with presets loaded the active preset_name is the name of
\* presets[current_preset]; with none loaded it is "Init".
C29_CurrentPresetValid ==
    /\ current_preset >= 0
    /\ current_preset < (IF preset_count > 1 THEN preset_count ELSE 1)
    /\ preset_count > 0 => preset_name = presets[current_preset + 1].name
    /\ preset_count = 0 => preset_name = "Init"

\* A "state" restore has just come in on a full bank with the last preset
\* selected, and the selection is still the last preset.
C29_Witness ==
    /\ last_call = [op |-> "set_param", key |-> "state", val |-> 0]
    /\ preset_count = MAX_PRESETS
    /\ current_preset = MAX_PRESETS - 1
    /\ preset_name = "P64"
    /\ presets[MAX_PRESETS].name = "P64"

====
